---- MODULE Spec2Model ----
(***************************************************************************)
(* A model of the portty daemon: the portal request path (run_session),    *)
(* the session engine (Session::run / handle_request), the session         *)
(* registry, the session workspaces on disk, the submission queue and the  *)
(* daemon control socket's queue verbs.                                    *)
(*                                                                         *)
(* Strings that the code inspects (entries, paths, URIs) are sequences of  *)
(* one-character strings, so that prefix tests and joins are computed.     *)
(***************************************************************************)
EXTENDS Integers, Sequences, FiniteSets, TLC

\* ------------------------------------------------------------------ bounds
\* Largest reading of the system clock (SystemTime::now) the model reaches.
MaxClock == 2
\* Longest list of pending queued commands (SubmissionQueue.pending).
MaxPending == 1
\* Longest list of queued submissions (SubmissionQueue.submissions).
MaxQueue == 1
\* Most connections waiting in the backlog of one session socket.
MaxInbox == 1

\* ------------------------------------------------------------- small helpers
Range(s) == {s[i] : i \in 1..Len(s)}

Contains(s, x) == \E i \in 1..Len(s) : s[i] = x

\* All orders in which the elements of a finite set can be listed.
Perms(S) == {p \in [1..Cardinality(S) -> S] : \A x \in S : \E i \in 1..Cardinality(S) : p[i] = x}

StartsWith(s, p) == Len(s) >= Len(p) /\ SubSeq(s, 1, Len(p)) = p

\* str::strip_prefix(p).unwrap_or(s)
StripPrefix(s, p) == IF StartsWith(s, p) THEN SubSeq(s, Len(p) + 1, Len(s)) ELSE s

\* ------------------------------------------------------------------ entries
FilePrefix == <<"f", "i", "l", "e", ":", "/", "/">>

\* A relative path "a" and an absolute path "/b".
EntryRel == <<"a">>
EntryAbs == <<"/", "b">>

\* The current_folder option of the file-chooser request, "/h".
CurrentFolder == <<"/", "h">>

\* ------------------------------------------------------- requests and portals
\* Two portal requests arrive during the daemon's life: r1 is a file-chooser
\* open-file request (Pick, multiple = false, current_folder = "/h"), r2 a
\* screenshot request.
Reqs == {"r1", "r2"}

NoPortal == "any"
FileChooser == "file-chooser"
Screenshot == "screenshot"
PortalTypes == {FileChooser, Screenshot}

PortalOf(r) == IF r = "r1" THEN FileChooser ELSE Screenshot
OperationOf(r) == IF r = "r1" THEN "open-file" ELSE "screenshot"

\* Handlers: the generic run_session of portal/mod.rs and the file chooser's own
\* TtyFileChooser::run_session.
Generic == "run_session"
TtyFileChooser == "TtyFileChooser::run_session"
HandlersOf(r) == IF r = "r1" THEN {Generic, TtyFileChooser} ELSE {Generic}

\* The option blob of the request: lib/portal/file_chooser.rs SessionOptions.
\* `pick` and `multiple` hold the mode (Pick{multiple}, or one of the save modes
\* when pick is FALSE), has_folder whether current_folder is Some. is_dir and
\* is_file are the paths for which Path::is_dir and Path::is_file answer true.
OptionsOf(r) ==
    [pick |-> TRUE, multiple |-> FALSE, has_folder |-> (r = "r1"), current_folder |-> CurrentFolder,
     candidates |-> <<>>, is_dir |-> {}, is_file |-> {}]

\* ------------------------------------------- submission pipeline (lib/portal)
\* Path::is_absolute
is_absolute(path) == Len(path) > 0 /\ path[1] = "/"

\* Path::join: an absolute right-hand side replaces the left one; a separator
\* is put between the two unless the left one is empty or ends with one.
PathJoin(folder, path) ==
    IF is_absolute(path) THEN path
    ELSE IF folder = <<>> \/ folder[Len(folder)] = "/" THEN folder \o path
    ELSE folder \o <<"/">> \o path

\* The index of the last separator of a path, 0 when it has none.
LastSlash(path) ==
    IF \E i \in 1..Len(path) : path[i] = "/"
    THEN CHOOSE i \in 1..Len(path) : path[i] = "/" /\ \A j \in (i + 1)..Len(path) : path[j] # "/"
    ELSE 0

\* folder.parent().unwrap_or(&folder): the path without its last component
\* (the root and the empty path have no parent).
ParentOrSelf(path) ==
    IF path = <<>> \/ path = <<"/">> THEN path
    ELSE IF LastSlash(path) = 0 THEN <<>>
    ELSE IF LastSlash(path) = 1 THEN <<"/">>
    ELSE SubSeq(path, 1, LastSlash(path) - 1)

resolve_path(entry, options) ==
    LET path == StripPrefix(entry, FilePrefix)
    IN  IF is_absolute(path) THEN path
        ELSE IF options.has_folder THEN PathJoin(options.current_folder, path)
        ELSE path

\* Url::from_file_path(path).to_string(), falling back to "file://" + path for
\* a path that is not absolute. No character of the model's alphabet is
\* percent-encoded.
path_to_file_uri(path) == FilePrefix \o path

resolve_to_uri(entry, options) == path_to_file_uri(resolve_path(entry, options))

MapUris(entries, options) == [i \in 1..Len(entries) |-> resolve_to_uri(entries[i], options)]

Invalid == [ok |-> FALSE, entries |-> <<>>]
Valid(entries) == [ok |-> TRUE, entries |-> entries]

\* resolve_save_file_to_uri: a selected directory takes the first candidate's
\* name.
resolve_save_file_to_uri(entry, options) ==
    LET selected == resolve_path(entry, options)
    IN  IF /\ options.candidates # <<>>
           /\ Head(options.candidates) # <<>>
           /\ selected \in options.is_dir
        THEN path_to_file_uri(PathJoin(selected, Head(options.candidates)))
        ELSE path_to_file_uri(selected)

\* A variant of the save-files arm that joins the candidates to the first entry
\* even when it is a file.
SaveFilesInFolder_NoParent(entries, options) ==
    [i \in 1..Len(options.candidates) |->
        path_to_file_uri(PathJoin(resolve_path(Head(entries), options), options.candidates[i]))]

\* The save-files arm with candidates: the first entry names the folder, and
\* every candidate becomes a file in it.
SaveFilesInFolder(entries, options) ==
    LET chosen == resolve_path(Head(entries), options)
        folder == IF chosen \in options.is_file THEN ParentOrSelf(chosen) ELSE chosen
    IN  [i \in 1..Len(options.candidates) |->
            path_to_file_uri(PathJoin(folder, options.candidates[i]))]

\* A variant of the file chooser's validate that accepts an empty submission.
file_chooser_validate_AcceptsEmpty(operation, entries, options) ==
    IF operation = "save-file" /\ Len(entries) > 1 THEN Invalid
    ELSE IF operation = "open-file" /\ options.pick /\ ~options.multiple /\ Len(entries) > 1
    THEN Invalid
    ELSE Valid(MapUris(entries, options))

\* A variant of the file chooser's validate without the count checks.
file_chooser_validate_AnyCount(operation, entries, options) ==
    IF entries = <<>> THEN Invalid ELSE Valid(MapUris(entries, options))

\* lib/portal/file_chooser.rs validate
file_chooser_validate(operation, entries, options) ==
    IF entries = <<>> THEN Invalid
    ELSE IF operation = "save-file"
    THEN IF Len(entries) > 1 THEN Invalid
         ELSE Valid([i \in 1..Len(entries) |-> resolve_save_file_to_uri(entries[i], options)])
    ELSE IF operation = "save-files"
    THEN IF options.candidates = <<>> THEN Valid(MapUris(entries, options))
         ELSE Valid(SaveFilesInFolder(entries, options))
    ELSE IF operation = "open-file"
    THEN IF options.pick /\ ~options.multiple /\ Len(entries) > 1 THEN Invalid
         ELSE Valid(MapUris(entries, options))
    ELSE Valid(MapUris(entries, options))

\* ------------------------------------------------- colors (screenshot.rs)
DecDigits == <<"0", "1", "2", "3", "4", "5", "6", "7", "8", "9">>
LowerHex == <<"a", "b", "c", "d", "e", "f">>
UpperHex == <<"A", "B", "C", "D", "E", "F">>

IsDec(c) == c \in Range(DecDigits)
IsHex(c) == c \in Range(DecDigits) \cup Range(LowerHex) \cup Range(UpperHex)

\* char::to_digit(16)
HexVal(c) ==
    IF c \in Range(DecDigits) THEN (CHOOSE i \in 1..10 : DecDigits[i] = c) - 1
    ELSE IF c \in Range(LowerHex) THEN (CHOOSE i \in 1..6 : LowerHex[i] = c) + 9
    ELSE (CHOOSE i \in 1..6 : UpperHex[i] = c) + 9

\* char::is_whitespace, on the characters of the model
IsSpace(c) == c \in {" ", "\t", "\n", "\r"}

RECURSIVE TrimStart(_)
TrimStart(s) == IF s # <<>> /\ IsSpace(Head(s)) THEN TrimStart(Tail(s)) ELSE s

RECURSIVE TrimEnd(_)
TrimEnd(s) == IF s # <<>> /\ IsSpace(s[Len(s)]) THEN TrimEnd(SubSeq(s, 1, Len(s) - 1)) ELSE s

\* str::trim
Trim(s) == TrimEnd(TrimStart(s))

RECURSIVE SplitOn(_, _)
\* str::split(sep): the pieces between the separators, empty ones included.
SplitOn(s, sep) ==
    IF \E i \in 1..Len(s) : s[i] = sep
    THEN LET i == CHOOSE k \in 1..Len(s) : s[k] = sep /\ \A j \in 1..(k - 1) : s[j] # sep
         IN  <<SubSeq(s, 1, i - 1)>> \o SplitOn(SubSeq(s, i + 1, Len(s)), sep)
    ELSE <<s>>

RECURSIVE split_whitespace(_)
\* str::split_whitespace: the maximal runs of characters that are not whitespace.
split_whitespace(s) ==
    LET t == TrimStart(s)
    IN  IF t = <<>> THEN <<>>
        ELSE IF \E i \in 1..Len(t) : IsSpace(t[i])
        THEN LET i == CHOOSE k \in 1..Len(t) : IsSpace(t[k]) /\ \A j \in 1..(k - 1) : ~IsSpace(t[j])
             IN  <<SubSeq(t, 1, i - 1)>> \o split_whitespace(SubSeq(t, i + 1, Len(t)))
        ELSE <<t>>

RECURSIVE RadixValue(_, _)
\* The number a digit string denotes in the radix.
RadixValue(digits, radix) ==
    IF digits = <<>> THEN 0
    ELSE RadixValue(SubSeq(digits, 1, Len(digits) - 1), radix) * radix + HexVal(digits[Len(digits)])

NoNumber == [ok |-> FALSE, num |-> 0, den |-> 1]
Number(num, den) == [ok |-> TRUE, num |-> num, den |-> den]

\* The largest u8
MaxU8 == 255

\* u8::from_str_radix and str::parse::<u8>: an optional plus sign, then at
\* least one digit of the radix, and a value that fits eight bits.
parse_u8(text, radix) ==
    LET digits == IF text # <<>> /\ Head(text) = "+" THEN Tail(text) ELSE text
    IN  IF /\ digits # <<>>
           /\ \A i \in 1..Len(digits) : IF radix = 16 THEN IsHex(digits[i]) ELSE IsDec(digits[i])
           /\ RadixValue(digits, radix) <= MaxU8
        THEN Number(RadixValue(digits, radix), MaxU8)
        ELSE NoNumber

RECURSIVE Pow10(_)
Pow10(n) == IF n = 0 THEN 1 ELSE 10 * Pow10(n - 1)

\* str::parse::<f64> on a decimal literal without sign and exponent: digits
\* with at most one point, and at least one digit. The value is kept exact, as
\* a fraction.
parse_f64(text) ==
    LET parts == SplitOn(text, ".")
        whole == parts[1]
        frac == IF Len(parts) = 2 THEN parts[2] ELSE <<>>
    IN  IF /\ Len(parts) <= 2
           /\ whole \o frac # <<>>
           /\ \A i \in 1..Len(whole \o frac) : IsDec((whole \o frac)[i])
        THEN Number(RadixValue(whole \o frac, 10), Pow10(Len(frac)))
        ELSE NoNumber

NoColor == [some |-> FALSE, rgb |-> <<>>]
SomeColor(r, g, b) == [some |-> TRUE, rgb |-> <<r, g, b>>]

\* (0.0..=1.0).contains(x)
InUnit(x) == x.num <= x.den

\* The `?` chain of one branch of parse_color.
ColorOf(r, g, b) == IF r.ok /\ g.ok /\ b.ok THEN SomeColor(r, g, b) ELSE NoColor

\* s.strip_prefix("rgb(").and_then(|s| s.strip_suffix(')'))
RgbPrefix == <<"r", "g", "b", "(">>
HasRgbForm(s) == StartsWith(s, RgbPrefix) /\ Len(s) > Len(RgbPrefix) /\ s[Len(s)] = ")"
RgbInner(s) == SubSeq(s, Len(RgbPrefix) + 1, Len(s) - 1)

\* parse_color: the hex form, the rgb(r, g, b) form, and three floats of the
\* unit interval.
parse_color(text) ==
    LET s == Trim(text)
        hex == Tail(s)
        parts == SplitOn(RgbInner(s), ",")
        floats == split_whitespace(s)
    IN  IF s # <<>> /\ Head(s) = "#" /\ Len(hex) = 6
        THEN ColorOf(parse_u8(SubSeq(hex, 1, 2), 16), parse_u8(SubSeq(hex, 3, 4), 16),
                     parse_u8(SubSeq(hex, 5, 6), 16))
        ELSE IF HasRgbForm(s) /\ Len(parts) = 3
        THEN ColorOf(parse_u8(Trim(parts[1]), 10), parse_u8(Trim(parts[2]), 10),
                     parse_u8(Trim(parts[3]), 10))
        ELSE IF Len(floats) = 3
        THEN LET c == ColorOf(parse_f64(floats[1]), parse_f64(floats[2]), parse_f64(floats[3]))
             IN  IF c.some /\ \A i \in 1..3 : InUnit(c.rgb[i]) THEN c ELSE NoColor
        ELSE NoColor

\* lib/portal/screenshot.rs validate
screenshot_validate(operation, entries) ==
    IF entries = <<>> THEN Invalid
    ELSE IF Len(entries) > 1 THEN Invalid
    ELSE IF operation = "pick-color"
    THEN LET color_str == StripPrefix(entries[1], FilePrefix)
         IN  IF parse_color(color_str).some THEN Valid(<<color_str>>) ELSE Invalid
    ELSE Valid(entries)

\* lib/portal/mod.rs validate
validate(portal, operation, entries, options) ==
    IF portal = FileChooser THEN file_chooser_validate(operation, entries, options)
    ELSE IF portal = Screenshot THEN screenshot_validate(operation, entries)
    ELSE Valid(entries)

\* ------------------------------------------------------ queue (ipc/queue.rs)
Select(uris) == [op |-> "Select", uris |-> uris]
Deselect(uris) == [op |-> "Deselect", uris |-> uris]
Clear == [op |-> "Clear", uris |-> <<>>]
SubmitMsg == [op |-> "Submit", uris |-> <<>>]
CancelMsg == [op |-> "Cancel", uris |-> <<>>]

\* The commands the CLI pushes to the daemon's pending list.
PushCmds == {Select(<<EntryRel>>), Select(<<EntryRel, EntryAbs>>), Clear}

\* The requests a client sends straight to a session socket.
ClientMsgs == {Select(<<EntryRel>>), Select(<<EntryAbs>>), Deselect(<<EntryRel>>), Clear, SubmitMsg, CancelMsg}

\* The two requests that end a session.
EndMsgs == {SubmitMsg, CancelMsg}

\* s.portal.is_none_or(|p| p == portal)
MatchesPortal(s, portal) == s.portal = NoPortal \/ s.portal = portal

\* A variant of Position that prefers a submission queued for the portal itself
\* to an earlier one queued for any portal.
Position_PreferSpecific(subs, portal) ==
    IF \E i \in 1..Len(subs) : subs[i].portal = portal
    THEN CHOOSE i \in 1..Len(subs) :
            /\ subs[i].portal = portal
            /\ \A j \in 1..(i - 1) : subs[j].portal # portal
    ELSE IF \E i \in 1..Len(subs) : subs[i].portal = NoPortal
    THEN CHOOSE i \in 1..Len(subs) :
            /\ subs[i].portal = NoPortal
            /\ \A j \in 1..(i - 1) : subs[j].portal # NoPortal
    ELSE 0

\* iter().position(..): the first matching index, 0 when there is none.
Position(subs, portal) ==
    IF \E i \in 1..Len(subs) : MatchesPortal(subs[i], portal)
    THEN CHOOSE i \in 1..Len(subs) :
            /\ MatchesPortal(subs[i], portal)
            /\ \A j \in 1..(i - 1) : ~MatchesPortal(subs[j], portal)
    ELSE 0

\* Vec::remove(idx)
RemoveAt(s, idx) == SubSeq(s, 1, idx - 1) \o SubSeq(s, idx + 1, Len(s))

NoSubmission == [commands |-> <<>>, portal |-> NoPortal, created |-> 0]

\* A variant of the pop that leaves the submission in the queue.
pop_for_portal_Peek(subs, portal) ==
    LET idx == Position(subs, portal)
    IN  IF idx = 0
        THEN [found |-> FALSE, submission |-> NoSubmission, rest |-> subs]
        ELSE [found |-> TRUE, submission |-> subs[idx], rest |-> subs]

\* SubmissionQueue::pop_for_portal: the popped submission (if any) and the
\* submissions left.
pop_for_portal(subs, portal) ==
    LET idx == Position(subs, portal)
    IN  IF idx = 0
        THEN [found |-> FALSE, submission |-> NoSubmission, rest |-> subs]
        ELSE [found |-> TRUE, submission |-> subs[idx], rest |-> RemoveAt(subs, idx)]

\* A variant of submit that bundles the newest pending command only.
queue_submit_NewestOnly(subs, pend, portal, created) ==
    IF pend = <<>> THEN subs
    ELSE Append(subs, [commands |-> <<pend[Len(pend)]>>, portal |-> portal, created |-> created])

\* SubmissionQueue::submit: the submissions after bundling `pend`.
queue_submit(subs, pend, portal, created) ==
    IF pend = <<>> THEN subs
    ELSE Append(subs, [commands |-> pend, portal |-> portal, created |-> created])

\* ---------------------------------------- applying commands to a selection
RECURSIVE AppendNew(_, _)
\* for uri in uris { if !selection.contains(&uri) { selection.push(uri) } }
AppendNew(selection, uris) ==
    IF uris = <<>> THEN selection
    ELSE AppendNew(IF Contains(selection, Head(uris)) THEN selection
                   ELSE Append(selection, Head(uris)), Tail(uris))

\* selection.retain(|u| !uris.contains(u))
Retain(selection, uris) == SelectSeq(selection, LAMBDA u : ~Contains(uris, u))

ApplyQueued(selection, cmd) ==
    IF cmd.op = "Select" THEN AppendNew(selection, cmd.uris)
    ELSE IF cmd.op = "Deselect" THEN Retain(selection, cmd.uris)
    ELSE <<>>

RECURSIVE ApplyAllQueued(_, _)
\* The ordered selection a queued submission's commands build
\* (TtyFileChooser::run_session).
ApplyAllQueued(selection, commands) ==
    IF commands = <<>> THEN selection
    ELSE ApplyAllQueued(ApplyQueued(selection, Head(commands)), Tail(commands))

\* One command on the session's HashSet selection.
ApplySet(selection, cmd) ==
    IF cmd.op = "Select" THEN selection \cup Range(cmd.uris)
    ELSE IF cmd.op = "Deselect" THEN selection \ Range(cmd.uris)
    ELSE {}

RECURSIVE apply_pending(_, _)
\* Session::apply_pending
apply_pending(selection, commands) ==
    IF commands = <<>> THEN selection
    ELSE apply_pending(ApplySet(selection, Head(commands)), Tail(commands))

\* --------------------------------------------------------------------- state
VARIABLES
    now,          \* the reading of SystemTime::now (nanoseconds)
    handler,      \* which run_session serves each request
    exec,         \* Config: whether an exec is configured for the request
    registry,     \* SessionRegistry.sessions: the registered session records
    workspace,    \* the session directories under base_dir
    pending,      \* SubmissionQueue.pending
    submissions,  \* SubmissionQueue.submissions
    pc,           \* where each portal request is in its run_session
    sid,          \* Session.id of the request's session (0: no session yet)
    selection,    \* Session.selection
    order,        \* history: the entries of the selection in the order they were added
    child,        \* Session.child: none, running, killed (signal sent), exited, leaked
    srun,         \* Session::run: none, ready (constructed), queued, running, done
    cancelled,    \* run's local `cancelled`
    submitted,    \* run's local `submitted`
    inbox,        \* connections waiting on the session's listener
    result,       \* what Session::run returned
    reply,        \* what the portal method answered
    first,        \* history: the first of Submit / Cancel the session handled
    closed,       \* Request::close was called on the request's abort handle
    wk,           \* the control-socket worker serving a QueueSubmit
    popped,       \* what the last direct call of pop_for_portal returned
    resp,         \* the response the control socket wrote last
    store,        \* a session's submission file, with what was done to it last
    call          \* a library function, the arguments it is called with and what it returned

vars == <<now, handler, exec, registry, workspace, pending, submissions, pc, sid,
          selection, order, child, srun, cancelled, submitted, inbox, result, reply,
          first, closed, wk, popped, resp, store, call>>

NoResult == [kind |-> "None", uris |-> <<>>]
ResultCancelled == [kind |-> "Cancelled", uris |-> <<>>]
ResultError == [kind |-> "Error", uris |-> <<>>]
ResultSuccess(uris) == [kind |-> "Success", uris |-> uris]

NoReply == [code |-> "None", uris |-> <<>>]
ReplyCancelled == [code |-> "Cancelled", uris |-> <<>>]
ReplyFailed == [code |-> "Failed", uris |-> <<>>]
ReplySuccess(uris) == [code |-> "Success", uris |-> uris]

NoPop == [asked |-> NoPortal, found |-> FALSE, submission |-> NoSubmission]

\* Response of the control socket (ipc/src/protocol.rs, Response).
NoResponse == [kind |-> "None", msg |-> ""]
ResponseOk == [kind |-> "Ok", msg |-> ""]
ResponseError(msg) == [kind |-> "Error", msg |-> msg]

\* SelectionMode (lib/portal/file_chooser.rs)
Pick(multiple, directory) == [kind |-> "Pick", multiple |-> multiple, directory |-> directory]
Save == [kind |-> "Save", multiple |-> FALSE, directory |-> FALSE]
SaveMultiple == [kind |-> "SaveMultiple", multiple |-> FALSE, directory |-> FALSE]

\* AddResult (lib/portal/mod.rs)
NoAdd == [kind |-> "None", n |-> 0]
Appended(n) == [kind |-> "Appended", n |-> n]
Replaced == [kind |-> "Replaced", n |-> 0]

\* No library function is under study.
NoCall == [fn |-> "none", arg |-> <<>>, done |-> FALSE, ret |-> <<>>]

\* No submission file is under study.
NoStore ==
    [file |-> <<>>, ctx |-> [portal |-> NoPortal, mode |-> Pick(FALSE, FALSE), initial |-> <<>>],
     op |-> "none", xs |-> <<>>, prior |-> <<>>, added |-> NoAdd]

WkIdle ==
    [st |-> "idle", id |-> 0, cmds |-> <<>>, i |-> 0, portal |-> NoPortal, target |-> "none",
     via |-> "none"]

Init ==
    /\ now = 1
    /\ handler \in {h \in [Reqs -> {Generic, TtyFileChooser}] : \A r \in Reqs : h[r] \in HandlersOf(r)}
    /\ exec \in {e \in [Reqs -> BOOLEAN] : ~e["r2"]}
    /\ registry = {}
    /\ workspace = {}
    /\ pending = <<>>
    /\ submissions = <<>>
    /\ pc = [r \in Reqs |-> "start"]
    /\ sid = [r \in Reqs |-> 0]
    /\ selection = [r \in Reqs |-> {}]
    /\ order = [r \in Reqs |-> <<>>]
    /\ child = [r \in Reqs |-> "none"]
    /\ srun = [r \in Reqs |-> "none"]
    /\ cancelled = [r \in Reqs |-> FALSE]
    /\ submitted = [r \in Reqs |-> FALSE]
    /\ inbox = [r \in Reqs |-> <<>>]
    /\ result = [r \in Reqs |-> NoResult]
    /\ reply = [r \in Reqs |-> NoReply]
    /\ first = [r \in Reqs |-> "none"]
    /\ closed = [r \in Reqs |-> FALSE]
    /\ wk = WkIdle
    /\ popped = NoPop
    /\ resp = NoResponse
    /\ store = NoStore
    /\ call = NoCall

\* ------------------------------------------------- identifiers and registry
\* The readings SystemTime::now can give next: the clock does not go back.
ClockReadings == now..MaxClock

\* SessionId::new: the clock reading `ts`, formatted ({:x}).
SessionId_new(ts) == ts

\* SessionRegistry::register: HashMap::insert replaces a record with the same id.
register(reg, rec) == {x \in reg : x.id # rec.id} \cup {rec}

\* SessionRegistry::unregister
unregister(reg, id) == {x \in reg : x.id # id}

\* default_commands(portal): the shims written to bin/.
default_commands(portal) == IF portal = FileChooser THEN {"bin/sel", "bin/submit", "bin/cancel"} ELSE {}

\* What Session::new writes into the session directory.
SessionNewFiles(portal) == {"portal", "bin", "sock"} \cup default_commands(portal)

\* What create_session writes into the session directory.
CreateSessionFiles(portal) == {"portal", "options.json", "submission", "bin", "sock"} \cup default_commands(portal)

\* Session::cleanup: remove_dir_all(dir).
cleanup(ws, id) == {w \in ws : w.id # id}

\* The listener a connect to <base>/<id>/sock reaches, if any.
ListenerAt(id) == {r \in Reqs : /\ srun[r] \in {"ready", "queued", "running"}
                                /\ sid[r] = id
                                /\ \E w \in workspace : w.id = id /\ w.owner = r /\ "sock" \in w.files}

\* The worker after the listener of session r is closed: a request of its own
\* still waiting there fails.
WkAfterClose(r) == IF wk.st = "wait" /\ wk.target = r THEN [wk EXCEPT !.st = "err"] ELSE wk

\* A variant in which the worker keeps the guard it took while it talks to the
\* session.
WorkerLock_KeptAcrossIO(w) ==
    IF w.st \in {"send", "wait", "resp", "err"}
    THEN (IF w.via = "route" THEN "read" ELSE "write")
    ELSE "none"

\* The lock on the daemon state that the control socket's worker holds where
\* it stands: route_session_command and QueueSubmit drop their guard before
\* the first send_to_session, so a worker that talks to a session holds none.
WorkerLock(w) == "none"

\* state.write() and state.read() of another thread succeed at once.
CanWrite == WorkerLock(wk) = "none"
CanRead == WorkerLock(wk) # "write"

\* ------------------------------------------------ session engine (session.rs)
\* The entries in the order they were added, after the request.
OrderAfter(ord, req) ==
    IF req.op \in {"Select", "Deselect", "Clear"} THEN ApplyQueued(ord, req) ELSE ord

\* handle_request: the selection after the request.
SelectionAfter(sel, req) ==
    IF req.op \in {"Select", "Deselect", "Clear"} THEN ApplySet(sel, req) ELSE sel

\* child.kill(): the signal is sent; the process is gone only once it is waited for.
Kill(c) == IF c = "running" THEN "killed" ELSE c

\* A variant of the drop that kills the child and waits for it.
Dropped_Reaping(c) == "none"

\* The session is dropped (Drop -> cleanup removes the directory) and its
\* Child handle with it, which neither kills the process nor waits for it: a
\* child that was spawned and not reaped is left to itself.
Dropped(c) == IF c = "none" THEN "none" ELSE "leaked"

\* handle_request: the child after the request (Submit and Cancel kill it).
ChildAfter(c, req) == IF req.op \in {"Submit", "Cancel"} THEN Kill(c) ELSE c

\* handle_request: the flags after the request.
SubmittedAfter(s, req) == s \/ req.op = "Submit"
CancelledAfter(c, req) == c \/ req.op = "Cancel"

\* A variant of the exit test that lets a headless run end with no flag set.
HeadlessBreak_Always(headless, s, c) == headless

\* run: the loop's exit test in headless mode.
HeadlessBreak(headless, s, c) == headless /\ (s \/ c)

\* A variant of the result that reports a submitted empty selection as Success.
ResultKind_SuccessWhenEmpty(c, s, sel) ==
    IF c THEN "Cancelled"
    ELSE IF s THEN "Success"
    ELSE "Cancelled"

\* A variant of the result in which a submitted selection beats the Cancel.
ResultKind_SubmitWins(c, s, sel) ==
    IF s /\ sel # {} THEN "Success" ELSE "Cancelled"

\* run: the kind of result after the loop.
ResultKind(c, s, sel) ==
    IF c THEN "Cancelled"
    ELSE IF s /\ sel # {} THEN "Success"
    ELSE "Cancelled"

\* run leaves its loop with `sub` as the value of `submitted`: the result is
\* decided and the closure that owns the session ends, which drops the session
\* with its selection, child handle and listener (Drop -> cleanup).
RunReturn(r, sub) ==
    /\ submitted' = [submitted EXCEPT ![r] = sub]
    /\ IF ResultKind(cancelled[r], sub, selection[r]) = "Success"
       THEN \E uris \in Perms(selection[r]) : result' = [result EXCEPT ![r] = ResultSuccess(uris)]
       ELSE result' = [result EXCEPT ![r] = ResultCancelled]
    /\ srun' = [srun EXCEPT ![r] = "done"]
    /\ selection' = [selection EXCEPT ![r] = {}]
    /\ order' = [order EXCEPT ![r] = <<>>]
    /\ child' = [child EXCEPT ![r] = "none"]
    /\ inbox' = [inbox EXCEPT ![r] = <<>>]
    /\ wk' = WkAfterClose(r)
    /\ workspace' = cleanup(workspace, sid[r])
    /\ UNCHANGED <<now, handler, exec, popped, resp, store, call, registry, pending, submissions, pc, sid,
                   cancelled, reply, first, closed>>

\* run, one turn of the loop: try_wait reports that the child has exited.
RunChildExited(r) ==
    /\ srun[r] = "running"
    /\ child[r] = "exited"
    /\ RunReturn(r, TRUE)

\* run, one turn of the loop: try_wait fails and run returns the error by
\* `?`, with the child neither killed nor waited for; the session is dropped
\* when the closure ends.
RunWaitError(r) ==
    /\ srun[r] = "running"
    /\ child[r] # "none"
    /\ result' = [result EXCEPT ![r] = ResultError]
    /\ srun' = [srun EXCEPT ![r] = "done"]
    /\ selection' = [selection EXCEPT ![r] = {}]
    /\ order' = [order EXCEPT ![r] = <<>>]
    /\ child' = [child EXCEPT ![r] = Dropped(child[r])]
    /\ inbox' = [inbox EXCEPT ![r] = <<>>]
    /\ wk' = WkAfterClose(r)
    /\ workspace' = cleanup(workspace, sid[r])
    /\ UNCHANGED <<now, handler, exec, popped, resp, store, call, registry, pending, submissions, pc, sid,
                   cancelled, submitted, reply, first, closed>>

\* run, one turn of the loop in headless mode: a flag is set, the loop ends.
RunHeadlessBreak(r) ==
    /\ srun[r] = "running"
    /\ HeadlessBreak(child[r] = "none", submitted[r], cancelled[r])
    /\ RunReturn(r, submitted[r])

\* run, one turn of the loop: the child (if any) is still running, the loop
\* does not end, a connection is accepted and its request handled.
RunAccept(r) ==
    /\ srun[r] = "running"
    /\ child[r] # "exited"
    /\ ~HeadlessBreak(child[r] = "none", submitted[r], cancelled[r])
    /\ inbox[r] # <<>>
    /\ LET conn == Head(inbox[r])
           req == conn.msg
       IN  /\ selection' = [selection EXCEPT ![r] = SelectionAfter(selection[r], req)]
           /\ order' = [order EXCEPT ![r] = OrderAfter(order[r], req)]
           /\ submitted' = [submitted EXCEPT ![r] = SubmittedAfter(submitted[r], req)]
           /\ cancelled' = [cancelled EXCEPT ![r] = CancelledAfter(cancelled[r], req)]
           /\ child' = [child EXCEPT ![r] = ChildAfter(child[r], req)]
           /\ first' = [first EXCEPT ![r] =
                           IF first[r] = "none" /\ req.op \in {"Submit", "Cancel"}
                           THEN req.op ELSE first[r]]
           /\ wk' = IF conn.from = "daemon" THEN [wk EXCEPT !.st = "resp"] ELSE wk
    /\ inbox' = [inbox EXCEPT ![r] = Tail(inbox[r])]
    /\ UNCHANGED <<now, handler, exec, popped, resp, store, call, registry, workspace, pending, submissions, pc, sid,
                   srun, result, reply, closed>>

\* The child process ends: on its own (the user closes the terminal) or
\* because it was killed.
ChildExit(r) ==
    /\ child[r] \in {"running", "killed"}
    /\ child' = [child EXCEPT ![r] = "exited"]
    /\ UNCHANGED <<now, handler, exec, popped, resp, store, call, registry, workspace, pending, submissions, pc, sid,
                   selection, order, srun, cancelled, submitted, inbox, result, reply, first,
                   closed, wk>>

\* A client (the CLI inside the terminal, through PORTTY_SOCK) connects to the
\* session's socket and sends one request.
ClientConnect(r, req) ==
    /\ r \in ListenerAt(sid[r])
    /\ Len(inbox[r]) < MaxInbox
    /\ inbox' = [inbox EXCEPT ![r] = Append(inbox[r], [msg |-> req, from |-> "cli"])]
    /\ UNCHANGED <<now, handler, exec, popped, resp, store, call, registry, workspace, pending, submissions, pc, sid,
                   selection, order, child, srun, cancelled, submitted, result, reply, first,
                   closed, wk>>

\* ------------------------------------------- portal request path (generic)
\* The reply the portal method gives for what run_session returned
\* (FileChooserPortal::open_file, ScreenshotPortal::screenshot): Ok -> Success,
\* Cancelled -> the cancellation code, Other -> a failed call.
ReplyOfValidated(v) == IF v.ok THEN ReplySuccess(v.entries) ELSE ReplyFailed

\* The entries of a queued submission.
QueuedEntries(sub) == ApplyAllQueued(<<>>, sub.commands)

\* run_session: the answer from a queued submission's entries.
QueuedReply(r, entries) ==
    IF entries = <<>> THEN ReplyCancelled
    ELSE ReplyOfValidated(validate(PortalOf(r), OperationOf(r), entries, OptionsOf(r)))

\* A variant of the mapping that reports a cancelled session as a failure.
SessionReply_CancelledFails(r, res) ==
    IF res.kind = "Success"
    THEN ReplyOfValidated(validate(PortalOf(r), OperationOf(r), res.uris, OptionsOf(r)))
    ELSE ReplyFailed

\* run_session: the answer after Session::run returned `res`.
SessionReply(r, res) ==
    IF res.kind = "Error" THEN ReplyFailed
    ELSE IF res.kind = "Success"
    THEN ReplyOfValidated(validate(PortalOf(r), OperationOf(r), res.uris, OptionsOf(r)))
    ELSE ReplyCancelled

\* run_session, lines 67-85: pop_queued_submission and the short-circuit.
run_session_queued(r) ==
    /\ pc[r] = "start"
    /\ handler[r] = Generic
    /\ LET p == pop_for_portal(submissions, PortalOf(r))
       IN  IF p.found
           THEN /\ submissions' = p.rest
                /\ reply' = [reply EXCEPT ![r] = QueuedReply(r, QueuedEntries(p.submission))]
                /\ pc' = [pc EXCEPT ![r] = "done"]
           ELSE /\ pc' = [pc EXCEPT ![r] = "create"]
                /\ UNCHANGED <<submissions, reply>>
    /\ UNCHANGED <<now, handler, exec, popped, resp, store, call, registry, workspace, pending, sid, selection, order, child,
                   srun, cancelled, submitted, inbox, result, first, closed, wk>>

\* run_session, lines 101-106: create_session under the registry's write lock.
\* It fails when the session directory already exists.
run_session_create(r) ==
    /\ pc[r] = "create"
    /\ handler[r] = Generic
    /\ CanWrite
    /\ \E ts \in ClockReadings :
        LET id == SessionId_new(ts)
        IN  /\ now' = ts
            /\ IF \E w \in workspace : w.id = id
               THEN /\ reply' = [reply EXCEPT ![r] = ReplyFailed]
                    /\ pc' = [pc EXCEPT ![r] = "done"]
                    /\ UNCHANGED <<registry, workspace, sid, srun>>
               ELSE /\ workspace' = workspace \cup
                           {[id |-> id, files |-> CreateSessionFiles(PortalOf(r)), owner |-> r]}
                    /\ registry' = register(registry, [id |-> id, portal |-> PortalOf(r), owner |-> r])
                    /\ sid' = [sid EXCEPT ![r] = id]
                    /\ srun' = [srun EXCEPT ![r] = "ready"]
                    /\ pc' = [pc EXCEPT ![r] = "drain"]
                    /\ UNCHANGED reply
    /\ UNCHANGED <<handler, exec, popped, resp, store, call, pending, submissions, selection, order, child, cancelled,
                   submitted, inbox, result, first, closed, wk>>

\* run_session, line 109: drain_pending_to(session.dir()).
run_session_drain(r) ==
    /\ pc[r] = "drain"
    /\ handler[r] = Generic
    /\ selection' = [selection EXCEPT ![r] = apply_pending(selection[r], pending)]
    /\ order' = [order EXCEPT ![r] = ApplyAllQueued(order[r], pending)]
    /\ pending' = <<>>
    /\ pc' = [pc EXCEPT ![r] = "spawn"]
    /\ UNCHANGED <<now, handler, exec, popped, resp, store, call, registry, workspace, submissions, sid, child, srun,
                   cancelled, submitted, inbox, result, reply, first, closed, wk>>

\* A variant of the spawn failure path that returns without unregistering.
RegistryAfterSpawnFailure_Kept(reg, id) == reg

\* The registry after run_session's spawn failed.
RegistryAfterSpawnFailure(reg, id) == unregister(reg, id)

\* run_session, lines 111-121: spawn when an exec is configured, then hand
\* session.run() to the blocking pool, where it waits for a thread. A failed spawn unregisters and returns;
\* the session is dropped on return.
run_session_spawn(r) ==
    /\ pc[r] = "spawn"
    /\ handler[r] = Generic
    /\ \/ /\ exec[r]
          /\ child' = [child EXCEPT ![r] = "running"]
          /\ srun' = [srun EXCEPT ![r] = "queued"]
          /\ pc' = [pc EXCEPT ![r] = "await"]
          /\ UNCHANGED <<registry, workspace, inbox, reply, wk, selection, order>>
       \/ /\ exec[r]
          /\ CanWrite
          /\ registry' = RegistryAfterSpawnFailure(registry, sid[r])
          /\ reply' = [reply EXCEPT ![r] = ReplyFailed]
          /\ pc' = [pc EXCEPT ![r] = "done"]
          /\ srun' = [srun EXCEPT ![r] = "done"]
          /\ selection' = [selection EXCEPT ![r] = {}]
          /\ order' = [order EXCEPT ![r] = <<>>]
          /\ inbox' = [inbox EXCEPT ![r] = <<>>]
          /\ wk' = WkAfterClose(r)
          /\ workspace' = cleanup(workspace, sid[r])
          /\ UNCHANGED child
       \/ /\ ~exec[r]
          /\ srun' = [srun EXCEPT ![r] = "queued"]
          /\ pc' = [pc EXCEPT ![r] = "await"]
          /\ UNCHANGED <<registry, workspace, inbox, reply, wk, child, selection, order>>
    /\ UNCHANGED <<now, handler, exec, popped, resp, store, call, pending, submissions, sid, cancelled,
                   submitted, result, first, closed>>

\* The registry after run_session's await of the run has completed.
RegistryAfterRun(reg, id) == unregister(reg, id)

\* run_session, lines 123-145: the run has returned; unregister, then map the
\* result.
run_session_finish(r) ==
    /\ pc[r] = "await"
    /\ handler[r] = Generic
    /\ srun[r] = "done"
    /\ CanWrite
    /\ registry' = RegistryAfterRun(registry, sid[r])
    /\ reply' = [reply EXCEPT ![r] = SessionReply(r, result[r])]
    /\ pc' = [pc EXCEPT ![r] = "done"]
    /\ UNCHANGED <<now, handler, exec, popped, resp, store, call, workspace, pending, submissions, sid, selection, order,
                   child, srun, cancelled, submitted, inbox, result, first, closed, wk>>

\* The blocking pool starts the closure it was given: Session::run begins.
RunStart(r) ==
    /\ srun[r] = "queued"
    /\ srun' = [srun EXCEPT ![r] = "running"]
    /\ UNCHANGED <<now, handler, exec, popped, resp, store, call, registry, workspace, pending, submissions, pc, sid,
                   selection, order, child, cancelled, submitted, inbox, result, reply, first,
                   closed, wk>>

\* Request::close: the abort handle aborts the request's future where it is
\* suspended (awaiting the run); the portal method answers Cancelled. Nothing
\* else is done. A run that has started goes on in its thread; a closure the
\* pool has not started yet is dropped with the task, and the session it owns
\* is dropped without run.
Close(r) ==
    /\ pc[r] = "await"
    /\ closed' = [closed EXCEPT ![r] = TRUE]
    /\ reply' = [reply EXCEPT ![r] = ReplyCancelled]
    /\ pc' = [pc EXCEPT ![r] = "done"]
    /\ IF srun[r] = "queued"
       THEN /\ srun' = [srun EXCEPT ![r] = "done"]
            /\ child' = [child EXCEPT ![r] = Dropped(child[r])]
            /\ selection' = [selection EXCEPT ![r] = {}]
            /\ order' = [order EXCEPT ![r] = <<>>]
            /\ inbox' = [inbox EXCEPT ![r] = <<>>]
            /\ wk' = WkAfterClose(r)
            /\ workspace' = cleanup(workspace, sid[r])
       ELSE UNCHANGED <<workspace, selection, order, child, srun, inbox, wk>>
    /\ UNCHANGED <<now, handler, exec, popped, resp, store, call, registry, pending, submissions, sid,
                   cancelled, submitted, result, first>>

\* ------------------------------- portal request path (TtyFileChooser, old)
\* TtyFileChooser::run_session, lines 37-75: the answer from a queued
\* submission: its selection as it is, Cancelled when empty.
TtyQueuedReply(entries) ==
    IF entries = <<>> THEN ReplyCancelled ELSE ReplySuccess(entries)

\* TtyFileChooser::run_session, lines 147-163: the answer after the run.
TtySessionReply(res) ==
    IF res.kind = "Success" THEN ReplySuccess(res.uris) ELSE ReplyCancelled

TtyFileChooser_queued(r) ==
    /\ pc[r] = "start"
    /\ handler[r] = TtyFileChooser
    /\ CanWrite
    /\ LET p == pop_for_portal(submissions, FileChooser)
       IN  IF p.found
           THEN /\ submissions' = p.rest
                /\ reply' = [reply EXCEPT ![r] = TtyQueuedReply(QueuedEntries(p.submission))]
                /\ pc' = [pc EXCEPT ![r] = "done"]
           ELSE /\ pc' = [pc EXCEPT ![r] = "new"]
                /\ UNCHANGED <<submissions, reply>>
    /\ UNCHANGED <<now, handler, exec, popped, resp, store, call, registry, workspace, pending, sid, selection, order, child,
                   srun, cancelled, submitted, inbox, result, first, closed, wk>>

\* Session::new (lines 92-93 of the handler): the directory is made and
\* filled, the socket bound. bind fails when the socket file exists.
TtyFileChooser_new(r) ==
    /\ pc[r] = "new"
    /\ \E ts \in ClockReadings :
        LET id == SessionId_new(ts)
        IN  /\ now' = ts
            /\ IF \E w \in workspace : w.id = id /\ "sock" \in w.files
               THEN /\ reply' = [reply EXCEPT ![r] = ReplyFailed]
                    /\ pc' = [pc EXCEPT ![r] = "done"]
                    /\ UNCHANGED <<workspace, sid, srun>>
               ELSE /\ workspace' = workspace \cup
                           {[id |-> id, files |-> SessionNewFiles(FileChooser), owner |-> r]}
                    /\ sid' = [sid EXCEPT ![r] = id]
                    /\ srun' = [srun EXCEPT ![r] = "ready"]
                    /\ pc' = [pc EXCEPT ![r] = "register"]
                    /\ UNCHANGED reply
    /\ UNCHANGED <<handler, exec, popped, resp, store, call, registry, pending, submissions, selection, order, child,
                   cancelled, submitted, inbox, result, first, closed, wk>>

\* Lines 96-116: register the session and transfer the pending commands.
TtyFileChooser_register(r) ==
    /\ pc[r] = "register"
    /\ CanWrite
    /\ registry' = register(registry, [id |-> sid[r], portal |-> FileChooser, owner |-> r])
    /\ selection' = [selection EXCEPT ![r] = apply_pending(selection[r], pending)]
    /\ order' = [order EXCEPT ![r] = ApplyAllQueued(order[r], pending)]
    /\ pending' = <<>>
    /\ pc' = [pc EXCEPT ![r] = "tspawn"]
    /\ UNCHANGED <<now, handler, exec, popped, resp, store, call, workspace, submissions, sid, child, srun, cancelled,
                   submitted, inbox, result, reply, first, closed, wk>>

\* Lines 119-126: spawn, then run the session in a thread. A failed spawn
\* returns at once (`?`): the session is dropped, nothing is unregistered.
TtyFileChooser_spawn(r) ==
    /\ pc[r] = "tspawn"
    /\ \/ /\ exec[r]
          /\ child' = [child EXCEPT ![r] = "running"]
          /\ srun' = [srun EXCEPT ![r] = "running"]
          /\ pc' = [pc EXCEPT ![r] = "await"]
          /\ UNCHANGED <<workspace, inbox, reply, wk, selection, order>>
       \/ /\ exec[r]
          /\ reply' = [reply EXCEPT ![r] = ReplyFailed]
          /\ pc' = [pc EXCEPT ![r] = "done"]
          /\ srun' = [srun EXCEPT ![r] = "done"]
          /\ selection' = [selection EXCEPT ![r] = {}]
          /\ order' = [order EXCEPT ![r] = <<>>]
          /\ inbox' = [inbox EXCEPT ![r] = <<>>]
          /\ wk' = WkAfterClose(r)
          /\ workspace' = cleanup(workspace, sid[r])
          /\ UNCHANGED child
       \/ /\ ~exec[r]
          /\ srun' = [srun EXCEPT ![r] = "running"]
          /\ pc' = [pc EXCEPT ![r] = "await"]
          /\ UNCHANGED <<workspace, inbox, reply, wk, child, selection, order>>
    /\ UNCHANGED <<now, handler, exec, popped, resp, store, call, registry, pending, submissions, sid,
                   cancelled, submitted, result, first, closed>>

\* Lines 129-163: the thread has finished. A run error returns before the
\* unregister; otherwise unregister and answer with the session's uris.
TtyFileChooser_finish(r) ==
    /\ pc[r] = "await"
    /\ handler[r] = TtyFileChooser
    /\ srun[r] = "done"
    /\ result[r].kind = "Error" \/ CanWrite
    /\ IF result[r].kind = "Error"
       THEN /\ reply' = [reply EXCEPT ![r] = ReplyFailed]
            /\ UNCHANGED registry
       ELSE /\ registry' = unregister(registry, sid[r])
            /\ reply' = [reply EXCEPT ![r] = TtySessionReply(result[r])]
    /\ pc' = [pc EXCEPT ![r] = "done"]
    /\ UNCHANGED <<now, handler, exec, popped, resp, store, call, workspace, pending, submissions, sid, selection, order,
                   child, srun, cancelled, submitted, inbox, result, first, closed, wk>>

\* ------------------------------------------------ control socket (daemon)
\* QueuePush: SubmissionQueue::push_command.
QueuePush(cmd) ==
    /\ Len(pending) < MaxPending
    /\ CanWrite
    /\ pending' = Append(pending, cmd)
    /\ resp' = ResponseOk
    /\ UNCHANGED <<now, handler, exec, popped, store, call, registry, workspace, submissions, pc, sid,
                   selection, order, child, srun, cancelled, submitted, inbox, result, reply, first,
                   closed, wk>>

\* The registered sessions a QueueSubmit for `portal` may pick.
MatchingSessions(reg, portal) == {s \in reg : portal = NoPortal \/ s.portal = portal}

\* QueueSubmit, lines 310-349, up to the release of the lock: nothing pending
\* is an error; with a matching session the pending commands are taken for
\* apply_to_session (the response is written when that returns), else they are
\* bundled into a submission.
QueueSubmit(portal) ==
    /\ wk.st = "idle"
    /\ IF pending = <<>>
       THEN /\ resp' = ResponseError("No pending commands to submit")
            /\ UNCHANGED <<wk, submissions, now, pending>>
       ELSE /\ Len(submissions) < MaxQueue
            /\ IF MatchingSessions(registry, portal) # {}
               THEN /\ \E s \in MatchingSessions(registry, portal) :
                           wk' = [st |-> "send", id |-> s.id, cmds |-> pending, i |-> 1,
                                  portal |-> portal, target |-> "none", via |-> "apply"]
                    /\ resp' = NoResponse
                    /\ UNCHANGED <<submissions, now>>
               ELSE /\ \E ts \in ClockReadings :
                           /\ now' = ts
                           /\ submissions' = queue_submit(submissions, pending, portal, ts)
                    /\ resp' = ResponseOk
                    /\ UNCHANGED wk
            /\ pending' = <<>>
    /\ UNCHANGED <<handler, exec, popped, store, call, registry, workspace, pc, sid, selection, order, child,
                   srun, cancelled, submitted, inbox, result, reply, first, closed>>

\* QueueClearPending, lines 351-355: SubmissionQueue::clear_pending.
QueueClearPending ==
    /\ CanWrite
    /\ pending' = <<>>
    /\ resp' = ResponseOk
    /\ UNCHANGED <<now, handler, exec, popped, store, call, registry, workspace, submissions, pc, sid,
                   selection, order, child, srun, cancelled, submitted, inbox, result, reply, first,
                   closed, wk>>

\* RegisteredSession.created: Session::new reads the clock for the identifier
\* and again for `created`; the model takes both from one reading.
Created(s) == s.id

\* The session records with the smallest (created, id).
EarliestCreated(reg) ==
    {s \in reg : \A t \in reg : Created(s) < Created(t) \/ (Created(s) = Created(t) /\ s.id <= t.id)}

\* A variant of the routing that goes on to a session socket without looking
\* at the registry.
RouteTarget_Blind(reg) == [ok |-> TRUE, ids |-> 1..MaxClock, msg |-> ""]

\* route_session_command, lines 256-274: the only session, or an error.
RouteTarget(reg) ==
    IF Cardinality(reg) = 1 THEN [ok |-> TRUE, ids |-> {s.id : s \in reg}, msg |-> ""]
    ELSE IF reg = {} THEN [ok |-> FALSE, ids |-> {}, msg |-> "No active sessions"]
    ELSE [ok |-> FALSE, ids |-> {}, msg |-> "Multiple sessions active, specify --session"]

\* handle_request, lines 230-240, and route_session_command: a session command
\* received on the daemon socket is forwarded to the session the routing names.
route_session_command(req) ==
    /\ wk.st = "idle"
    /\ LET t == RouteTarget(registry)
       IN  IF t.ok
           THEN /\ \E id \in t.ids :
                       wk' = [st |-> "send", id |-> id, cmds |-> <<req>>, i |-> 1,
                              portal |-> NoPortal, target |-> "none", via |-> "route"]
                /\ resp' = NoResponse
           ELSE /\ resp' = ResponseError(t.msg)
                /\ UNCHANGED wk
    /\ UNCHANGED <<now, handler, exec, popped, store, call, registry, workspace, pending, submissions,
                   pc, sid, selection, order, child, srun, cancelled, submitted, inbox, result, reply,
                   first, closed>>

\* Response::Session(info) of GetSession.
ResponseSession(id) == [kind |-> "Session", msg |-> "", id |-> id]

\* GetSession, lines 296-302: the session's record, or "Session not found".
GetSession(id) ==
    /\ CanRead
    /\ resp' = IF \E s \in registry : s.id = id
               THEN ResponseSession(id)
               ELSE ResponseError("Session not found")
    /\ UNCHANGED <<now, handler, exec, popped, store, call, registry, workspace, pending, submissions,
                   pc, sid, selection, order, child, srun, cancelled, submitted, inbox, result, reply,
                   first, closed, wk>>

\* A variant of apply_to_session that sends Submit before the commands.
RequestAt_SubmitFirst(cmds, i) == IF i = 1 THEN SubmitMsg ELSE cmds[i - 1]

\* apply_to_session: the request sent at position i (the commands, then Submit).
RequestAt(cmds, i) == IF i <= Len(cmds) THEN cmds[i] ELSE SubmitMsg

\* The request the worker has to send next.
WorkerRequest == IF wk.via = "route" THEN wk.cmds[1] ELSE RequestAt(wk.cmds, wk.i)

\* send_to_session: connect to the session's socket and write the request; the
\* connect fails when nothing listens there.
WorkerSend ==
    /\ wk.st = "send"
    /\ IF ListenerAt(wk.id) = {}
       THEN /\ wk' = [wk EXCEPT !.st = "err"]
            /\ UNCHANGED inbox
       ELSE \E r \in ListenerAt(wk.id) :
               /\ Len(inbox[r]) < MaxInbox
               /\ inbox' = [inbox EXCEPT ![r] = Append(inbox[r],
                                [msg |-> WorkerRequest, from |-> "daemon"])]
               /\ wk' = [wk EXCEPT !.st = "wait", !.target = r]
    /\ UNCHANGED <<now, handler, exec, popped, resp, store, call, registry, workspace, pending,
                   submissions, pc, sid, selection, order, child, srun, cancelled, submitted, result,
                   reply, first, closed>>

\* The session answered Ok. apply_to_session sends the next request or
\* returns Ok; route_session_command passes the response on.
WorkerResp ==
    /\ wk.st = "resp"
    /\ IF wk.via = "apply" /\ wk.i <= Len(wk.cmds)
       THEN /\ wk' = [wk EXCEPT !.st = "send", !.i = wk.i + 1, !.target = "none"]
            /\ UNCHANGED resp
       ELSE /\ wk' = WkIdle
            /\ resp' = ResponseOk
    /\ UNCHANGED <<now, handler, exec, popped, store, call, registry, workspace, pending, submissions,
                   pc, sid, selection, order, child, srun, cancelled, submitted, inbox, result, reply,
                   first, closed>>

\* The request could not be delivered. QueueSubmit, lines 335-342: the taken
\* commands are written back over `pending` and bundled into a submission, and
\* the response is Ok. route_session_command, lines 276-281: the error is the
\* response.
WorkerFail ==
    /\ wk.st = "err"
    /\ IF wk.via = "apply"
       THEN /\ \E ts \in ClockReadings :
                   /\ now' = ts
                   /\ submissions' = queue_submit(submissions, wk.cmds, wk.portal, ts)
            /\ pending' = <<>>
            /\ resp' = ResponseOk
       ELSE /\ resp' = ResponseError("send_to_session")
            /\ UNCHANGED <<now, submissions, pending>>
    /\ wk' = WkIdle
    /\ UNCHANGED <<handler, exec, popped, store, call, registry, workspace, pc, sid, selection, order, child,
                   srun, cancelled, submitted, inbox, result, reply, first, closed>>

\* -------------------------------------------------------------- specification
Next ==
    \/ \E r \in Reqs : run_session_queued(r)
    \/ \E r \in Reqs : run_session_create(r)
    \/ \E r \in Reqs : run_session_drain(r)
    \/ \E r \in Reqs : run_session_spawn(r)
    \/ \E r \in Reqs : RunStart(r)
    \/ \E r \in Reqs : run_session_finish(r)
    \/ \E r \in Reqs : TtyFileChooser_queued(r)
    \/ \E r \in Reqs : TtyFileChooser_new(r)
    \/ \E r \in Reqs : TtyFileChooser_register(r)
    \/ \E r \in Reqs : TtyFileChooser_spawn(r)
    \/ \E r \in Reqs : TtyFileChooser_finish(r)
    \/ \E r \in Reqs : Close(r)
    \/ \E r \in Reqs : RunChildExited(r)
    \/ \E r \in Reqs : RunWaitError(r)
    \/ \E r \in Reqs : RunHeadlessBreak(r)
    \/ \E r \in Reqs : RunAccept(r)
    \/ \E r \in Reqs : ChildExit(r)
    \/ \E r \in Reqs : \E req \in ClientMsgs : ClientConnect(r, req)
    \/ \E cmd \in PushCmds : QueuePush(cmd)
    \/ \E portal \in PortalTypes \cup {NoPortal} : QueueSubmit(portal)
    \/ WorkerSend
    \/ WorkerResp
    \/ WorkerFail

Spec == Init /\ [][Next]_vars

\* One portal request and its session, with every session request, the queue
\* and the control socket.
NextSession ==
    \/ run_session_queued("r1")
    \/ run_session_create("r1")
    \/ run_session_drain("r1")
    \/ run_session_spawn("r1")
    \/ RunStart("r1")
    \/ run_session_finish("r1")
    \/ TtyFileChooser_queued("r1")
    \/ TtyFileChooser_new("r1")
    \/ TtyFileChooser_register("r1")
    \/ TtyFileChooser_spawn("r1")
    \/ TtyFileChooser_finish("r1")
    \/ Close("r1")
    \/ RunChildExited("r1")
    \/ RunWaitError("r1")
    \/ RunHeadlessBreak("r1")
    \/ RunAccept("r1")
    \/ ChildExit("r1")
    \/ \E req \in ClientMsgs : ClientConnect("r1", req)
    \/ \E cmd \in PushCmds : QueuePush(cmd)
    \/ \E portal \in PortalTypes \cup {NoPortal} : QueueSubmit(portal)
    \/ WorkerSend
    \/ WorkerResp
    \/ WorkerFail

SpecSession == Init /\ [][NextSession]_vars

\* Two portal requests side by side, without the control socket: the
\* file-chooser session is given one entry, both sessions are ended by their
\* clients.
NextTwo ==
    \/ \E r \in Reqs : run_session_queued(r)
    \/ \E r \in Reqs : run_session_create(r)
    \/ \E r \in Reqs : run_session_drain(r)
    \/ \E r \in Reqs : run_session_spawn(r)
    \/ \E r \in Reqs : RunStart(r)
    \/ \E r \in Reqs : run_session_finish(r)
    \/ \E r \in Reqs : TtyFileChooser_queued(r)
    \/ \E r \in Reqs : TtyFileChooser_new(r)
    \/ \E r \in Reqs : TtyFileChooser_register(r)
    \/ \E r \in Reqs : TtyFileChooser_spawn(r)
    \/ \E r \in Reqs : TtyFileChooser_finish(r)
    \/ \E r \in Reqs : Close(r)
    \/ \E r \in Reqs : RunChildExited(r)
    \/ \E r \in Reqs : RunWaitError(r)
    \/ \E r \in Reqs : RunHeadlessBreak(r)
    \/ \E r \in Reqs : RunAccept(r)
    \/ \E r \in Reqs : ChildExit(r)
    \/ ClientConnect("r1", Select(<<EntryAbs>>))
    \/ \E r \in Reqs : \E req \in EndMsgs : ClientConnect(r, req)

SpecTwo == Init /\ [][NextTwo]_vars

\* One portal request and its session with the session's clients, without the
\* control socket; the steps the daemon and the operating system take on their
\* own are taken eventually. A child ends for certain only once it is killed;
\* clients, the calling application and failures of try_wait are not bound to
\* act.
NextRequest ==
    \/ run_session_queued("r1")
    \/ run_session_create("r1")
    \/ run_session_drain("r1")
    \/ run_session_spawn("r1")
    \/ RunStart("r1")
    \/ run_session_finish("r1")
    \/ TtyFileChooser_queued("r1")
    \/ TtyFileChooser_new("r1")
    \/ TtyFileChooser_register("r1")
    \/ TtyFileChooser_spawn("r1")
    \/ TtyFileChooser_finish("r1")
    \/ Close("r1")
    \/ RunChildExited("r1")
    \/ RunWaitError("r1")
    \/ RunHeadlessBreak("r1")
    \/ RunAccept("r1")
    \/ ChildExit("r1")
    \/ \E req \in ClientMsgs : ClientConnect("r1", req)

ChildDies(r) == child[r] = "killed" /\ ChildExit(r)

Fairness ==
    /\ WF_vars(run_session_queued("r1"))
    /\ WF_vars(run_session_create("r1"))
    /\ WF_vars(run_session_drain("r1"))
    /\ WF_vars(run_session_spawn("r1"))
    /\ WF_vars(RunStart("r1"))
    /\ WF_vars(run_session_finish("r1"))
    /\ WF_vars(TtyFileChooser_queued("r1"))
    /\ WF_vars(TtyFileChooser_new("r1"))
    /\ WF_vars(TtyFileChooser_register("r1"))
    /\ WF_vars(TtyFileChooser_spawn("r1"))
    /\ WF_vars(TtyFileChooser_finish("r1"))
    /\ WF_vars(RunChildExited("r1"))
    /\ WF_vars(RunHeadlessBreak("r1"))
    /\ WF_vars(RunAccept("r1"))
    /\ WF_vars(ChildDies("r1"))

FairSpec == Init /\ [][NextRequest]_vars /\ Fairness

\* ------------------------------------------------ the queue on its own
\* Longest queue the queue specification starts from.
MaxLen == 3

\* The submissions a queue can hold: one command each, any target, created at
\* some clock reading.
QueueElems ==
    {[commands |-> <<c>>, portal |-> p, created |-> t] :
        c \in {Clear, Select(<<EntryRel>>)}, p \in PortalTypes \cup {NoPortal}, t \in 1..MaxClock}

\* submit appends with the clock's reading, so a queue is in creation order.
SortedQueues ==
    UNION {{q \in [1..n -> QueueElems] : \A i \in 1..(n - 1) : q[i].created <= q[i + 1].created} :
            n \in 0..MaxLen}

InitQueue ==
    /\ now = MaxClock
    /\ handler = [r \in Reqs |-> Generic]
    /\ exec = [r \in Reqs |-> FALSE]
    /\ registry = {}
    /\ workspace = {}
    /\ pending = <<>>
    /\ submissions \in SortedQueues
    /\ pc = [r \in Reqs |-> "start"]
    /\ sid = [r \in Reqs |-> 0]
    /\ selection = [r \in Reqs |-> {}]
    /\ order = [r \in Reqs |-> <<>>]
    /\ child = [r \in Reqs |-> "none"]
    /\ srun = [r \in Reqs |-> "none"]
    /\ cancelled = [r \in Reqs |-> FALSE]
    /\ submitted = [r \in Reqs |-> FALSE]
    /\ inbox = [r \in Reqs |-> <<>>]
    /\ result = [r \in Reqs |-> NoResult]
    /\ reply = [r \in Reqs |-> NoReply]
    /\ first = [r \in Reqs |-> "none"]
    /\ closed = [r \in Reqs |-> FALSE]
    /\ wk = WkIdle
    /\ popped = NoPop
    /\ resp = NoResponse
    /\ store = NoStore
    /\ call = NoCall

\* SubmissionQueue::pop_for_portal called on the queue.
QueuePop(portal) ==
    /\ LET p == pop_for_portal(submissions, portal)
       IN  /\ submissions' = p.rest
           /\ popped' = [asked |-> portal, found |-> p.found, submission |-> p.submission]
    /\ UNCHANGED <<now, handler, exec, registry, workspace, pending, pc, sid, selection, order,
                   child, srun, cancelled, submitted, inbox, result, reply, first, closed, wk,
                   resp, store, call>>

NextQueue == \E portal \in PortalTypes : QueuePop(portal)

SpecQueue == InitQueue /\ [][NextQueue]_vars

\* ------------------------------------- two requests and a queue of submissions
\* The queues the two requests find: at most two submissions.
ConsumeQueues == {q \in SortedQueues : Len(q) <= 2}

\* Submissions were queued before the two portal requests arrive.
InitConsume ==
    /\ now = MaxClock
    /\ handler \in {h \in [Reqs -> {Generic, TtyFileChooser}] : \A r \in Reqs : h[r] \in HandlersOf(r)}
    /\ exec = [r \in Reqs |-> FALSE]
    /\ registry = {}
    /\ workspace = {}
    /\ pending = <<>>
    /\ submissions \in ConsumeQueues
    /\ pc = [r \in Reqs |-> "start"]
    /\ sid = [r \in Reqs |-> 0]
    /\ selection = [r \in Reqs |-> {}]
    /\ order = [r \in Reqs |-> <<>>]
    /\ child = [r \in Reqs |-> "none"]
    /\ srun = [r \in Reqs |-> "none"]
    /\ cancelled = [r \in Reqs |-> FALSE]
    /\ submitted = [r \in Reqs |-> FALSE]
    /\ inbox = [r \in Reqs |-> <<>>]
    /\ result = [r \in Reqs |-> NoResult]
    /\ reply = [r \in Reqs |-> NoReply]
    /\ first = [r \in Reqs |-> "none"]
    /\ closed = [r \in Reqs |-> FALSE]
    /\ wk = WkIdle
    /\ popped = NoPop
    /\ resp = NoResponse
    /\ store = NoStore
    /\ call = NoCall

\* The two requests look into the queue, and the one that finds nothing makes
\* its session and runs it until a client ends it.
NextConsume ==
    \/ \E r \in Reqs : run_session_queued(r)
    \/ \E r \in Reqs : run_session_create(r)
    \/ \E r \in Reqs : run_session_drain(r)
    \/ \E r \in Reqs : run_session_spawn(r)
    \/ \E r \in Reqs : RunStart(r)
    \/ \E r \in Reqs : run_session_finish(r)
    \/ \E r \in Reqs : TtyFileChooser_queued(r)
    \/ \E r \in Reqs : TtyFileChooser_new(r)
    \/ \E r \in Reqs : TtyFileChooser_register(r)
    \/ \E r \in Reqs : TtyFileChooser_spawn(r)
    \/ \E r \in Reqs : TtyFileChooser_finish(r)
    \/ \E r \in Reqs : RunHeadlessBreak(r)
    \/ \E r \in Reqs : RunAccept(r)
    \/ \E r \in Reqs : ClientConnect(r, CancelMsg)

SpecConsume == InitConsume /\ [][NextConsume]_vars

\* ------------------------------------------------ the daemon with no session
\* Longest pending list the idle daemon starts from.
MaxDrawn == 2

\* The pending lists pushes can have built.
PendingLists == UNION {[1..n -> PushCmds] : n \in 0..MaxDrawn}

\* The daemon before any portal request: commands were pushed, nothing was
\* submitted yet.
InitIdle ==
    /\ now = 1
    /\ handler = [r \in Reqs |-> Generic]
    /\ exec = [r \in Reqs |-> FALSE]
    /\ registry = {}
    /\ workspace = {}
    /\ pending \in PendingLists
    /\ submissions = <<>>
    /\ pc = [r \in Reqs |-> "start"]
    /\ sid = [r \in Reqs |-> 0]
    /\ selection = [r \in Reqs |-> {}]
    /\ order = [r \in Reqs |-> <<>>]
    /\ child = [r \in Reqs |-> "none"]
    /\ srun = [r \in Reqs |-> "none"]
    /\ cancelled = [r \in Reqs |-> FALSE]
    /\ submitted = [r \in Reqs |-> FALSE]
    /\ inbox = [r \in Reqs |-> <<>>]
    /\ result = [r \in Reqs |-> NoResult]
    /\ reply = [r \in Reqs |-> NoReply]
    /\ first = [r \in Reqs |-> "none"]
    /\ closed = [r \in Reqs |-> FALSE]
    /\ wk = WkIdle
    /\ popped = NoPop
    /\ resp = NoResponse
    /\ store = NoStore
    /\ call = NoCall

\* The requests of the control socket while no portal request is served.
NextIdle ==
    \/ \E cmd \in PushCmds : QueuePush(cmd)
    \/ \E portal \in PortalTypes \cup {NoPortal} : QueueSubmit(portal)
    \/ QueueClearPending
    \/ \E req \in ClientMsgs : route_session_command(req)
    \/ \E id \in 1..MaxClock : GetSession(id)

SpecIdle == InitIdle /\ [][NextIdle]_vars

\* ------------------------------------------- a submit with commands pending
\* One portal request while commands are pending: the request's session, the
\* clients that end it, and the control socket's QueueSubmit with its worker.
InitApply ==
    /\ now = 1
    /\ handler \in {h \in [Reqs -> {Generic, TtyFileChooser}] : \A r \in Reqs : h[r] \in HandlersOf(r)}
    /\ exec \in {e \in [Reqs -> BOOLEAN] : ~e["r2"]}
    /\ registry = {}
    /\ workspace = {}
    /\ pending \in PendingLists
    /\ submissions = <<>>
    /\ pc = [r \in Reqs |-> "start"]
    /\ sid = [r \in Reqs |-> 0]
    /\ selection = [r \in Reqs |-> {}]
    /\ order = [r \in Reqs |-> <<>>]
    /\ child = [r \in Reqs |-> "none"]
    /\ srun = [r \in Reqs |-> "none"]
    /\ cancelled = [r \in Reqs |-> FALSE]
    /\ submitted = [r \in Reqs |-> FALSE]
    /\ inbox = [r \in Reqs |-> <<>>]
    /\ result = [r \in Reqs |-> NoResult]
    /\ reply = [r \in Reqs |-> NoReply]
    /\ first = [r \in Reqs |-> "none"]
    /\ closed = [r \in Reqs |-> FALSE]
    /\ wk = WkIdle
    /\ popped = NoPop
    /\ resp = NoResponse
    /\ store = NoStore
    /\ call = NoCall

NextApply ==
    \/ run_session_queued("r1")
    \/ run_session_create("r1")
    \/ run_session_drain("r1")
    \/ run_session_spawn("r1")
    \/ RunStart("r1")
    \/ run_session_finish("r1")
    \/ TtyFileChooser_queued("r1")
    \/ TtyFileChooser_new("r1")
    \/ TtyFileChooser_register("r1")
    \/ TtyFileChooser_spawn("r1")
    \/ TtyFileChooser_finish("r1")
    \/ Close("r1")
    \/ RunChildExited("r1")
    \/ RunWaitError("r1")
    \/ RunHeadlessBreak("r1")
    \/ RunAccept("r1")
    \/ ChildExit("r1")
    \/ \E req \in EndMsgs : ClientConnect("r1", req)
    \/ \E portal \in PortalTypes \cup {NoPortal} : QueueSubmit(portal)
    \/ WorkerSend
    \/ WorkerResp
    \/ WorkerFail

SpecApply == InitApply /\ [][NextApply]_vars

\* --------------------------------------------- session commands on the daemon
\* Two portal requests side by side, ended by their clients, and the control
\* socket's session commands: the base verbs routed to a session and
\* GetSession. A command may be pending; the queue is not operated.
InitRoute ==
    /\ now = 1
    /\ handler \in {h \in [Reqs -> {Generic, TtyFileChooser}] : \A r \in Reqs : h[r] \in HandlersOf(r)}
    /\ exec \in {e \in [Reqs -> BOOLEAN] : ~e["r2"]}
    /\ registry = {}
    /\ workspace = {}
    /\ pending \in {<<>>, <<Select(<<EntryRel>>)>>}
    /\ submissions = <<>>
    /\ pc = [r \in Reqs |-> "start"]
    /\ sid = [r \in Reqs |-> 0]
    /\ selection = [r \in Reqs |-> {}]
    /\ order = [r \in Reqs |-> <<>>]
    /\ child = [r \in Reqs |-> "none"]
    /\ srun = [r \in Reqs |-> "none"]
    /\ cancelled = [r \in Reqs |-> FALSE]
    /\ submitted = [r \in Reqs |-> FALSE]
    /\ inbox = [r \in Reqs |-> <<>>]
    /\ result = [r \in Reqs |-> NoResult]
    /\ reply = [r \in Reqs |-> NoReply]
    /\ first = [r \in Reqs |-> "none"]
    /\ closed = [r \in Reqs |-> FALSE]
    /\ wk = WkIdle
    /\ popped = NoPop
    /\ resp = NoResponse
    /\ store = NoStore
    /\ call = NoCall

NextRoute ==
    \/ \E r \in Reqs : run_session_queued(r)
    \/ \E r \in Reqs : run_session_create(r)
    \/ \E r \in Reqs : run_session_drain(r)
    \/ \E r \in Reqs : run_session_spawn(r)
    \/ \E r \in Reqs : RunStart(r)
    \/ \E r \in Reqs : run_session_finish(r)
    \/ \E r \in Reqs : TtyFileChooser_queued(r)
    \/ \E r \in Reqs : TtyFileChooser_new(r)
    \/ \E r \in Reqs : TtyFileChooser_register(r)
    \/ \E r \in Reqs : TtyFileChooser_spawn(r)
    \/ \E r \in Reqs : TtyFileChooser_finish(r)
    \/ \E r \in Reqs : Close(r)
    \/ \E r \in Reqs : RunChildExited(r)
    \/ \E r \in Reqs : RunWaitError(r)
    \/ \E r \in Reqs : RunHeadlessBreak(r)
    \/ \E r \in Reqs : RunAccept(r)
    \/ \E r \in Reqs : ChildExit(r)
    \/ \E r \in Reqs : ClientConnect(r, CancelMsg)
    \/ \E req \in EndMsgs : route_session_command(req)
    \/ \E id \in 1..MaxClock : GetSession(id)
    \/ WorkerSend
    \/ WorkerResp
    \/ WorkerFail

SpecRoute == InitRoute /\ [][NextRoute]_vars

\* --------------------------------------------- the submission file (lib/files)
\* Most lines a submission file is let grow to.
MaxFileLines == 3

\* Most entries one command names.
MaxArgs == 2

Newline == "\n"

\* str::lines: the text between line feeds; a last line need not be terminated.
RECURSIVE LinesFrom(_, _)
LinesFrom(text, cur) ==
    IF text = <<>> THEN (IF cur = <<>> THEN <<>> ELSE <<cur>>)
    ELSE IF Head(text) = Newline THEN <<cur>> \o LinesFrom(Tail(text), <<>>)
    ELSE LinesFrom(Tail(text), Append(cur, Head(text)))

lines(text) == LinesFrom(text, <<>>)

\* A variant of read_lines that keeps empty lines.
read_lines_KeepEmpty(text) == lines(text)

\* files::read_lines: the non-empty lines of the file.
read_lines(text) == SelectSeq(lines(text), LAMBDA l : l # <<>>)

\* [String]::join("\n")
RECURSIVE join(_)
join(ls) ==
    IF ls = <<>> THEN <<>>
    ELSE IF Len(ls) = 1 THEN ls[1]
    ELSE ls[1] \o <<Newline>> \o join(Tail(ls))

\* A variant of write_lines that opens the file for appending.
write_lines_Appending(text, ls) == IF ls = <<>> THEN text ELSE text \o join(ls) \o <<Newline>>

\* files::write_lines: the file after the write (fs::write truncates).
write_lines(text, ls) == IF ls = <<>> THEN <<>> ELSE join(ls) \o <<Newline>>

\* files::append_lines: writeln! of each line at the end of the file.
RECURSIVE append_lines(_, _)
append_lines(text, ls) ==
    IF ls = <<>> THEN text ELSE append_lines(text \o Head(ls) \o <<Newline>>, Tail(ls))

\* files::remove_lines
remove_lines(text, to_remove) ==
    write_lines(text, SelectSeq(read_lines(text), LAMBDA e : ~Contains(to_remove, e)))

\* std::env::current_dir of the process that edits: "/h".
current_dir == <<"/", "h">>

\* resolve_entries_to_absolute, one entry.
resolve_entry(e) ==
    LET had == StartsWith(e, FilePrefix)
        path == StripPrefix(e, FilePrefix)
    IN  IF is_absolute(path) THEN e
        ELSE (IF had THEN FilePrefix ELSE <<>>) \o PathJoin(current_dir, path)

resolve_entries_to_absolute(entries) == [i \in 1..Len(entries) |-> resolve_entry(entries[i])]

\* A variant of the mode test that takes every Pick for a multiple pick.
is_multi_EveryPick(mode) == mode.kind = "Pick"

\* file_chooser::add_entries: matches!(mode, Pick { multiple: true, .. })
is_multi(mode) == mode.kind = "Pick" /\ mode.multiple

\* file_chooser::add_entries: the file and the result.
file_chooser_add_entries(text, entries, mode) ==
    LET resolved == resolve_entries_to_absolute(entries)
    IN  IF is_multi(mode)
        THEN [file |-> append_lines(text, resolved), added |-> Appended(Len(resolved))]
        ELSE [file |-> write_lines(text, resolved), added |-> Replaced]

\* screenshot::add_entries
screenshot_add_entries(text, entries) == [file |-> write_lines(text, entries), added |-> Replaced]

\* SessionContext::add_entries
add_entries(ctx, text, entries) ==
    IF ctx.portal = FileChooser THEN file_chooser_add_entries(text, entries, ctx.mode)
    ELSE IF ctx.portal = Screenshot THEN screenshot_add_entries(text, entries)
    ELSE [file |-> append_lines(text, entries), added |-> Appended(Len(entries))]

\* The entries a command can name: nothing, a relative path, an absolute path.
ArgEntries == {<<>>, EntryRel, EntryAbs}
ArgLists == UNION {[1..n -> ArgEntries] : n \in 0..MaxArgs}

\* The sessions whose submission file is edited.
SelectionModes == {Pick(m, d) : m \in BOOLEAN, d \in BOOLEAN} \cup {Save, SaveMultiple}
InitialEntries == {<<>>, <<EntryAbs>>, <<current_dir \o <<"/">> \o EntryRel, EntryAbs>>}
Contexts ==
    {[portal |-> FileChooser, mode |-> m, initial |-> i] : m \in SelectionModes, i \in InitialEntries}
    \cup {[portal |-> Screenshot, mode |-> Pick(FALSE, FALSE), initial |-> <<>>]}

\* The session's submission file as create_session leaves it: the initial
\* entries, one per line.
InitFiles ==
    /\ now = 1
    /\ handler = [r \in Reqs |-> Generic]
    /\ exec = [r \in Reqs |-> FALSE]
    /\ registry = {}
    /\ workspace = {}
    /\ pending = <<>>
    /\ submissions = <<>>
    /\ pc = [r \in Reqs |-> "start"]
    /\ sid = [r \in Reqs |-> 0]
    /\ selection = [r \in Reqs |-> {}]
    /\ order = [r \in Reqs |-> <<>>]
    /\ child = [r \in Reqs |-> "none"]
    /\ srun = [r \in Reqs |-> "none"]
    /\ cancelled = [r \in Reqs |-> FALSE]
    /\ submitted = [r \in Reqs |-> FALSE]
    /\ inbox = [r \in Reqs |-> <<>>]
    /\ result = [r \in Reqs |-> NoResult]
    /\ reply = [r \in Reqs |-> NoReply]
    /\ first = [r \in Reqs |-> "none"]
    /\ closed = [r \in Reqs |-> FALSE]
    /\ wk = WkIdle
    /\ popped = NoPop
    /\ resp = NoResponse
    /\ \E ctx \in Contexts :
           store = [file |-> write_lines(<<>>, ctx.initial), ctx |-> ctx, op |-> "init",
                    xs |-> <<>>, prior |-> <<>>, added |-> NoAdd]
    /\ call = NoCall

\* The store after an operation that left `text` in the file.
StoreAfter(op, xs, text, added) ==
    [store EXCEPT !.file = text, !.op = op, !.xs = xs, !.prior = read_lines(store.file),
                  !.added = added]

FilesUnchanged ==
    UNCHANGED <<now, handler, exec, registry, workspace, pending, submissions, pc, sid,
                selection, order, child, srun, cancelled, submitted, inbox, result, reply, first,
                closed, wk, popped, resp, call>>

\* edit: SessionContext::add_entries on the session's submission file.
EditAdd(xs) ==
    /\ LET a == add_entries(store.ctx, store.file, xs)
       IN  /\ Len(lines(a.file)) <= MaxFileLines
           /\ store' = StoreAfter("add", xs, a.file, a.added)
    /\ FilesUnchanged

\* edit --remove: files::remove_lines on the session's submission file.
EditRemove(xs) ==
    /\ store' = StoreAfter("remove", xs, remove_lines(store.file, xs), NoAdd)
    /\ FilesUnchanged

\* edit --clear: the submission is rewritten with no entry.
EditClear ==
    /\ store' = StoreAfter("clear", <<>>, write_lines(store.file, <<>>), NoAdd)
    /\ FilesUnchanged

\* reset: the submission is rewritten with the session's initial entries.
Reset ==
    /\ store' = StoreAfter("reset", <<>>, write_lines(store.file, store.ctx.initial), NoAdd)
    /\ FilesUnchanged

NextFiles ==
    \/ \E xs \in ArgLists : EditAdd(xs)
    \/ \E xs \in ArgLists : EditRemove(xs)
    \/ EditClear
    \/ Reset

SpecFiles == InitFiles /\ [][NextFiles]_vars

\* ------------------------------------------------ the validator on its own
\* The daemon at rest: no request, no session, nothing queued.
Quiet ==
    /\ now = 1
    /\ handler = [r \in Reqs |-> Generic]
    /\ exec = [r \in Reqs |-> FALSE]
    /\ registry = {}
    /\ workspace = {}
    /\ pending = <<>>
    /\ submissions = <<>>
    /\ pc = [r \in Reqs |-> "start"]
    /\ sid = [r \in Reqs |-> 0]
    /\ selection = [r \in Reqs |-> {}]
    /\ order = [r \in Reqs |-> <<>>]
    /\ child = [r \in Reqs |-> "none"]
    /\ srun = [r \in Reqs |-> "none"]
    /\ cancelled = [r \in Reqs |-> FALSE]
    /\ submitted = [r \in Reqs |-> FALSE]
    /\ inbox = [r \in Reqs |-> <<>>]
    /\ result = [r \in Reqs |-> NoResult]
    /\ reply = [r \in Reqs |-> NoReply]
    /\ first = [r \in Reqs |-> "none"]
    /\ closed = [r \in Reqs |-> FALSE]
    /\ wk = WkIdle
    /\ popped = NoPop
    /\ resp = NoResponse
    /\ store = NoStore

\* Only the function under study acts.
DaemonUnchanged ==
    UNCHANGED <<now, handler, exec, registry, workspace, pending, submissions, pc, sid,
                selection, order, child, srun, cancelled, submitted, inbox, result, reply, first,
                closed, wk, popped, resp, store>>

\* The longest submission the validator is given.
MaxEntries == 2

\* Entries of a file chooser submission: relative, absolute, and each as a
\* file:// entry.
PathEntries == {EntryRel, EntryAbs, FilePrefix \o EntryRel, FilePrefix \o EntryAbs}

\* Entries of a pick-color submission.
ColorUpper == <<"#", "F", "F", "8", "0", "0", "0">>
ColorLower == <<"#", "f", "f", "8", "0", "0", "0">>
ColorRgb == <<"r", "g", "b", "(", "2", "5", "5", ",", " ", "1", "2", "8", ",", " ", "0", ")">>
ColorFloats == <<"1", " ", "0", ".", "5", " ", "0">>
ColorPadded == <<" ">> \o ColorLower
NotAColor == <<"#", "G", "G", "8", "0", "0", "0">>
ColorEntries ==
    {ColorUpper, ColorLower, FilePrefix \o ColorUpper, ColorRgb, ColorFloats, ColorPadded,
     NotAColor, EntryRel}

ListsOf(S) == UNION {[1..n -> S] : n \in 0..MaxEntries}

\* The paths an entry of PathEntries can resolve to.
ResolvedPaths == {EntryRel, EntryAbs, PathJoin(CurrentFolder, EntryRel)}

CandidateName == <<"c">>
OtherCandidate == <<"d">>

\* SessionOptions, with what the file system answers about the resolved paths.
FileChooserOptions ==
    {[pick |-> md[1], multiple |-> md[2], has_folder |-> hf, current_folder |-> CurrentFolder,
      candidates |-> cs, is_dir |-> fs[1], is_file |-> fs[2]] :
        md \in {<<TRUE, FALSE>>, <<TRUE, TRUE>>, <<FALSE, FALSE>>},
        hf \in BOOLEAN,
        cs \in {<<>>, <<CandidateName>>, <<CandidateName, OtherCandidate>>},
        fs \in {<<{}, {}>>, <<ResolvedPaths, {}>>, <<{}, ResolvedPaths>>}}

FileChooserOps == {"open-file", "save-file", "save-files", "open-directory"}
ScreenshotOps == {"screenshot", "pick-color"}
OtherPortal == "settings"

ValidateInputs ==
    {[portal |-> FileChooser, operation |-> op, entries |-> es, options |-> o] :
        op \in FileChooserOps, es \in ListsOf(PathEntries), o \in FileChooserOptions}
    \cup
    {[portal |-> Screenshot, operation |-> op, entries |-> es, options |-> OptionsOf("r2")] :
        op \in ScreenshotOps, es \in ListsOf(ColorEntries)}
    \cup
    {[portal |-> OtherPortal, operation |-> "open-file", entries |-> es, options |-> OptionsOf("r2")] :
        es \in ListsOf(PathEntries)}

InitValidate ==
    /\ Quiet
    /\ call \in {[fn |-> "validate", arg |-> a, done |-> FALSE, ret |-> Invalid] : a \in ValidateInputs}

\* The pipeline validator is applied to the submission.
Validate ==
    /\ call.fn = "validate"
    /\ ~call.done
    /\ call' = [call EXCEPT !.done = TRUE,
                            !.ret = validate(call.arg.portal, call.arg.operation,
                                             call.arg.entries, call.arg.options)]
    /\ DaemonUnchanged

SpecValidate == InitValidate /\ [][Validate]_vars

\* ------------------------------------- control socket protocol (lib/protocol)
Submit == "submit"
Cancel == "cancel"
Verify == "verify"
ResetVerb == "reset"
List == "list"

\* The verbs that take an optional session id.
SessionVerbs == {Submit, Cancel, Verify, ResetVerb}

\* The text of a verb on the wire.
VerbText(verb) ==
    CASE verb = Submit -> <<"s", "u", "b", "m", "i", "t">>
      [] verb = Cancel -> <<"c", "a", "n", "c", "e", "l">>
      [] verb = Verify -> <<"v", "e", "r", "i", "f", "y">>
      [] verb = ResetVerb -> <<"r", "e", "s", "e", "t">>
      [] verb = List -> <<"l", "i", "s", "t">>

\* Option<String>
None == [some |-> FALSE, value |-> <<>>]
Some(value) == [some |-> TRUE, value |-> value]

\* Request (lib/protocol.rs)
Request(verb, session_id) == [verb |-> verb, session_id |-> session_id]

\* Request::encode
Request_encode(req) ==
    IF req.session_id.some
    THEN VerbText(req.verb) \o <<" ">> \o req.session_id.value \o <<"\n">>
    ELSE VerbText(req.verb) \o <<"\n">>

DecodeError == [ok |-> FALSE, req |-> Request(List, None)]
Decoded(req) == [ok |-> TRUE, req |-> req]

\* str::split_once(' '): the text before the first space and, when there is a
\* space, the text after it.
split_once(line) ==
    IF \E i \in 1..Len(line) : line[i] = " "
    THEN LET i == CHOOSE k \in 1..Len(line) : line[k] = " " /\ \A j \in 1..(k - 1) : line[j] # " "
         IN  [cmd |-> SubSeq(line, 1, i - 1), arg |-> Some(SubSeq(line, i + 1, Len(line)))]
    ELSE [cmd |-> line, arg |-> None]

\* Request::decode
Request_decode(text) ==
    LET parts == split_once(Trim(text))
    IN  IF \E v \in SessionVerbs : VerbText(v) = parts.cmd
        THEN Decoded(Request(CHOOSE v \in SessionVerbs : VerbText(v) = parts.cmd, parts.arg))
        ELSE IF parts.cmd = VerbText(List) THEN Decoded(Request(List, None))
        ELSE DecodeError

\* BufRead::read_line: the bytes up to the first line feed, with it.
read_line(wire) ==
    IF \E i \in 1..Len(wire) : wire[i] = "\n"
    THEN SubSeq(wire, 1, CHOOSE k \in 1..Len(wire) : wire[k] = "\n" /\ \A j \in 1..(k - 1) : wire[j] # "\n")
    ELSE wire

\* codec::read_request
read_request(wire) == IF wire = <<>> THEN DecodeError ELSE Request_decode(read_line(wire))

\* A variant of sanitize_field that replaces tabs only.
sanitize_field_TabsOnly(text) == [i \in 1..Len(text) |-> IF text[i] = "\t" THEN " " ELSE text[i]]

\* sanitize_field
sanitize_field(text) ==
    [i \in 1..Len(text) |-> IF text[i] \in {"\t", "\n", "\r"} THEN " " ELSE text[i]]

RECURSIVE ToDecimal(_)
\* u64 Display
ToDecimal(n) == IF n < 10 THEN <<DecDigits[n + 1]>> ELSE ToDecimal(n \div 10) \o <<DecDigits[(n % 10) + 1]>>

\* SessionInfo (lib/protocol.rs)
SessionInfo(id, portal, operation, title, created, dir) ==
    [id |-> id, portal |-> portal, operation |-> operation, title |-> title,
     created |-> created, dir |-> dir]

\* Response (lib/protocol.rs)
Response_Ok == [kind |-> "Ok", msg |-> <<>>, sessions |-> <<>>]
Response_Error(msg) == [kind |-> "Error", msg |-> msg, sessions |-> <<>>]
Response_Sessions(sessions) == [kind |-> "Sessions", msg |-> <<>>, sessions |-> sessions]

OkLine == <<"o", "k">>
ErrorPrefix == <<"e", "r", "r", "o", "r", ":", " ">>

\* One session-info line of Response::encode.
SessionLine(info) ==
    sanitize_field(info.id) \o <<"\t">> \o sanitize_field(info.portal) \o <<"\t">>
        \o sanitize_field(info.operation) \o <<"\t">> \o ToDecimal(info.created) \o <<"\t">>
        \o sanitize_field(info.dir) \o <<"\t">>
        \o sanitize_field(IF info.title.some THEN info.title.value ELSE <<>>) \o <<"\n">>

RECURSIVE SessionLines(_)
SessionLines(sessions) ==
    IF sessions = <<>> THEN <<>> ELSE SessionLine(Head(sessions)) \o SessionLines(Tail(sessions))

\* Response::encode
Response_encode(response) ==
    IF response.kind = "Ok" THEN OkLine \o <<"\n">>
    ELSE IF response.kind = "Error" THEN ErrorPrefix \o sanitize_field(response.msg) \o <<"\n">>
    ELSE SessionLines(response.sessions) \o OkLine \o <<"\n">>

NoInfo == [ok |-> FALSE, info |-> SessionInfo(<<>>, <<>>, <<>>, None, 0, <<>>)]

\* SessionInfo::decode_line
decode_line(line) ==
    LET parts == SplitOn(line, "\t")
        digits == IF parts[4] # <<>> /\ Head(parts[4]) = "+" THEN Tail(parts[4]) ELSE parts[4]
    IN  IF Len(parts) < 5 THEN NoInfo
        ELSE IF digits = <<>> \/ \E i \in 1..Len(digits) : ~IsDec(digits[i]) THEN NoInfo
        ELSE [ok |-> TRUE,
              info |-> SessionInfo(parts[1], parts[2], parts[3],
                                   IF Len(parts) >= 6 /\ parts[6] # <<>> THEN Some(parts[6]) ELSE None,
                                   RadixValue(digits, 10), parts[5])]

RECURSIVE trim_end_matches(_, _)
\* str::trim_end_matches(c)
trim_end_matches(text, c) ==
    IF text # <<>> /\ text[Len(text)] = c
    THEN trim_end_matches(SubSeq(text, 1, Len(text) - 1), c)
    ELSE text

\* What a read of the stream gives: a response, or an error of the codec.
ReadError == [ok |-> FALSE, response |-> Response_Ok]
Received(response) == [ok |-> TRUE, response |-> response]

\* A variant of the terminator arm of read_response that forgets the session
\* lines read before it.
OnTerminator_ForgetsSessions(sessions) == Received(Response_Ok)

\* read_response, the terminator line: Ok when no session line came before it.
OnTerminator(sessions) ==
    IF sessions = <<>> THEN Received(Response_Ok) ELSE Received(Response_Sessions(sessions))

RECURSIVE ReadResponseFrom(_, _)
\* codec::read_response: the loop, with the session lines read so far.
ReadResponseFrom(wire, sessions) ==
    IF wire = <<>> THEN ReadError
    ELSE LET line == read_line(wire)
             rest == SubSeq(wire, Len(line) + 1, Len(wire))
             trimmed == trim_end_matches(trim_end_matches(line, "\n"), "\r")
         IN  IF trimmed = OkLine THEN OnTerminator(sessions)
             ELSE IF StartsWith(trimmed, ErrorPrefix)
             THEN Received(Response_Error(StripPrefix(trimmed, ErrorPrefix)))
             ELSE IF decode_line(trimmed).ok
             THEN ReadResponseFrom(rest, Append(sessions, decode_line(trimmed).info))
             ELSE ReadError

read_response(wire) == ReadResponseFrom(wire, <<>>)

\* What DaemonClient::list returns.
ListOk(sessions) == [kind |-> "Ok", sessions |-> sessions, msg |-> <<>>]
ListServerError(msg) == [kind |-> "Server", sessions |-> <<>>, msg |-> msg]
ListCodecError == [kind |-> "Codec", sessions |-> <<>>, msg |-> <<>>]
ListUnexpected == [kind |-> "UnexpectedResponse", sessions |-> <<>>, msg |-> <<>>]

\* A variant of list that takes nothing but a session list for an answer.
client_list_SessionsOnly(read) ==
    IF ~read.ok THEN ListCodecError
    ELSE IF read.response.kind = "Sessions" THEN ListOk(read.response.sessions)
    ELSE IF read.response.kind = "Error" THEN ListServerError(read.response.msg)
    ELSE ListUnexpected

\* DaemonClient::list, on what send returned.
client_list(read) ==
    IF ~read.ok THEN ListCodecError
    ELSE IF read.response.kind = "Sessions" THEN ListOk(read.response.sessions)
    ELSE IF read.response.kind = "Ok" THEN ListOk(<<>>)
    ELSE ListServerError(read.response.msg)

\* The session ids a request is given: an identifier of the daemon, and texts a
\* caller can pass for one.
SessionIds == {<<"s", "1">>, <<>>, <<"a", " ">>, <<" ", "a">>, <<"a", " ", "b">>, <<"a", "\n", "b">>}

Requests ==
    {Request(verb, None) : verb \in SessionVerbs \cup {List}}
    \cup {Request(verb, Some(id)) : verb \in SessionVerbs, id \in SessionIds}

\* Lines a client of the socket can send that carry no verb of the protocol.
UnknownLines == {<<"s", "t", "a", "t", "u", "s", "\n">>, <<"b", "o", "g", "u", "s", " ", "x", "\n">>, <<"S", "U", "B", "M", "I", "T", "\n">>, <<"\n">>, <<"l", "i", "s", "t", "s", "\n">>}

CleanInfo == SessionInfo(<<"s", "1">>, <<"p">>, <<"o">>, Some(<<"t">>), 12, <<"/", "d">>)

\* Texts with the characters that structure the wire format.
DirtyTexts == {<<"a", "\t", "b">>, <<"a", "\n", "b">>, <<"\r">>}

SessionInfos ==
    {CleanInfo, [CleanInfo EXCEPT !.title = None], [CleanInfo EXCEPT !.created = 7],
     [CleanInfo EXCEPT !.title = Some(<<>>)], [CleanInfo EXCEPT !.id = ErrorPrefix \o <<"x">>]}
    \cup {[CleanInfo EXCEPT !.id = t] : t \in DirtyTexts}
    \cup {[CleanInfo EXCEPT !.portal = t] : t \in DirtyTexts}
    \cup {[CleanInfo EXCEPT !.operation = t] : t \in DirtyTexts}
    \cup {[CleanInfo EXCEPT !.dir = t] : t \in DirtyTexts}
    \cup {[CleanInfo EXCEPT !.title = Some(t)] : t \in DirtyTexts}

\* The most sessions of one list.
MaxListed == 2

Responses ==
    {Response_Ok}
    \cup {Response_Error(msg) : msg \in DirtyTexts \cup {<<"n", "o">>, <<>>}}
    \cup {Response_Sessions(l) : l \in UNION {[1..n -> SessionInfos] : n \in 0..MaxListed}}

\* A stream that ends before the terminator line of the response: the first n
\* bytes of its session lines, for every n. The requests, the unknown lines
\* and the responses are as listed above.
\* Nothing written yet, nothing read yet.
NoExchange ==
    [stage |-> "new", wire |-> <<>>, decoded |-> DecodeError, read |-> ReadError,
     list |-> ListCodecError]

InitProtocol ==
    /\ Quiet
    /\ \/ \E req \in Requests :
             call = [fn |-> "request", arg |-> req, done |-> FALSE, ret |-> NoExchange]
       \/ \E line \in UnknownLines :
             call = [fn |-> "line", arg |-> line, done |-> FALSE,
                     ret |-> [NoExchange EXCEPT !.stage = "written", !.wire = line]]
       \/ \E response \in Responses :
             call = [fn |-> "response", arg |-> response, done |-> FALSE, ret |-> NoExchange]
       \/ \E response \in Responses : \E n \in 0..Len(SessionLines(response.sessions)) :
             call = [fn |-> "stream", arg |-> response, done |-> FALSE,
                     ret |-> [NoExchange EXCEPT !.stage = "written",
                                                !.wire = SubSeq(SessionLines(response.sessions), 1, n)]]

\* codec::write_request
write_request ==
    /\ call.fn = "request"
    /\ call.ret.stage = "new"
    /\ call' = [call EXCEPT !.ret.stage = "written", !.ret.wire = Request_encode(call.arg)]
    /\ DaemonUnchanged

\* The daemon reads the request off the socket (codec::read_request).
ReadRequest ==
    /\ call.fn \in {"request", "line"}
    /\ call.ret.stage = "written"
    /\ call' = [call EXCEPT !.ret.stage = "read", !.ret.decoded = read_request(call.ret.wire),
                            !.done = TRUE]
    /\ DaemonUnchanged

\* codec::write_response
write_response ==
    /\ call.fn = "response"
    /\ call.ret.stage = "new"
    /\ call' = [call EXCEPT !.ret.stage = "written", !.ret.wire = Response_encode(call.arg)]
    /\ DaemonUnchanged

\* DaemonClient::send: the client reads the response (codec::read_response).
ReadResponse ==
    /\ call.fn \in {"response", "stream"}
    /\ call.ret.stage = "written"
    /\ call' = [call EXCEPT !.ret.stage = "read", !.ret.read = read_response(call.ret.wire)]
    /\ DaemonUnchanged

\* DaemonClient::list returns.
ClientList ==
    /\ call.fn \in {"response", "stream"}
    /\ call.ret.stage = "read"
    /\ call' = [call EXCEPT !.ret.stage = "listed", !.ret.list = client_list(call.ret.read),
                            !.done = TRUE]
    /\ DaemonUnchanged

NextProtocol ==
    \/ write_request
    \/ ReadRequest
    \/ write_response
    \/ ReadResponse
    \/ ClientList

SpecProtocol == InitProtocol /\ [][NextProtocol]_vars

\* -------------------------------------------------- configuration (config.rs)
\* Option::or
Or(a, b) == IF a.some THEN a ELSE b

\* .filter(|s| !s.is_empty())
FilterNonEmpty(o) == IF o.some /\ o.value # <<>> THEN o ELSE None

\* PortalConfig of one operation: its exec.
OpConfig(exec_) == [exec |-> exec_]

\* PortalConfig of a portal: its exec and the sections of its operations
\* (FileChooserExt, ScreenshotExt), each an Option.
PortalConfig(exec_, ext) == [exec |-> exec_, ext |-> ext]

\* The operation-level exec of a portal section: c.exec of the operation's
\* section when the portal's and the operation's sections are both there.
OpExec(section, op) ==
    IF section.some /\ section.value.ext[op].some THEN section.value.ext[op].value.exec ELSE None

\* The portal-level exec: fc.exec when the portal's section is there.
PortalExec(section) == IF section.some THEN section.value.exec ELSE None

\* Config::file_chooser_exec
file_chooser_exec(config, op) ==
    FilterNonEmpty(Or(Or(OpExec(config.file_chooser, op), PortalExec(config.file_chooser)),
                      config.exec))

\* Config::screenshot_exec
screenshot_exec(config, op) ==
    FilterNonEmpty(Or(Or(OpExec(config.screenshot, op), PortalExec(config.screenshot)),
                      config.exec))

\* The exec values of the three levels; a different program at each level
\* tells which level an effective exec came from.
RootExecs == {None, Some(<<>>), Some(<<"r">>)}
PortalExecs == {None, Some(<<>>), Some(<<"p">>)}
OpExecs == {None, Some(<<>>), Some(<<"o">>)}

\* The sections an operation can have: none, or one with an exec value.
OpSections == {None} \cup {Some(OpConfig(e)) : e \in OpExecs}

FileChooserConfigOps == {"open-file", "save-file", "save-files"}
ScreenshotConfigOps == {"screenshot", "pick-color"}

\* The sections a portal can have in the file.
PortalSections(ops) ==
    {None} \cup {Some(PortalConfig(e, ext)) : e \in PortalExecs, ext \in [ops -> OpSections]}

\* A configuration file and the operation a request asks for. The section of
\* the portal that is not asked for is left out of the file.
ExecInputs ==
    {[config |-> [exec |-> e, file_chooser |-> fc, screenshot |-> None],
      portal |-> FileChooser, operation |-> op] :
        e \in RootExecs, fc \in PortalSections(FileChooserConfigOps), op \in FileChooserConfigOps}
    \cup
    {[config |-> [exec |-> e, file_chooser |-> None, screenshot |-> sc],
      portal |-> Screenshot, operation |-> op] :
        e \in RootExecs, sc \in PortalSections(ScreenshotConfigOps), op \in ScreenshotConfigOps}

NoExec == [exec |-> None, headless |-> FALSE]

InitConfig ==
    /\ Quiet
    /\ call \in {[fn |-> "exec", arg |-> a, done |-> FALSE, ret |-> NoExec] : a \in ExecInputs}

\* The portal handler resolves the exec of the operation and decides whether
\* the session is headless.
ResolveExec ==
    /\ call.fn = "exec"
    /\ ~call.done
    /\ LET found == IF call.arg.portal = FileChooser
                    THEN file_chooser_exec(call.arg.config, call.arg.operation)
                    ELSE screenshot_exec(call.arg.config, call.arg.operation)
       IN  call' = [call EXCEPT !.done = TRUE, !.ret = [exec |-> found, headless |-> ~found.some]]
    /\ DaemonUnchanged

SpecConfig == InitConfig /\ [][ResolveExec]_vars

\* ------------------------------------------------- daemon startup (server.rs)
\* Directory modes 0o700, 0o755 and 0o777; the process umasks 0o022 and 0o077.
Mode0700 == 448
Mode0755 == 493
Mode0777 == 511
Umasks == {18, 63}

RECURSIVE AndNot(_, _)
\* mode & !umask
AndNot(mode, mask) ==
    IF mode = 0 THEN 0
    ELSE 2 * AndNot(mode \div 2, mask \div 2) + (IF mode % 2 = 1 /\ mask % 2 = 0 THEN 1 ELSE 0)

\* The base directory as the daemon finds it: missing, or there with an owner
\* (the daemon's user or another one) and a mode.
NoDir == [exists |-> FALSE, mine |-> TRUE, mode |-> 0]
Dir(mine, mode) == [exists |-> TRUE, mine |-> mine, mode |-> mode]
BaseDirs == {NoDir} \cup {Dir(mine, mode) : mine \in BOOLEAN, mode \in {Mode0700, Mode0755, Mode0777}}

\* fs::create_dir_all: a directory that is there is left as it is; a missing
\* one is created for the caller with mode 0o777 less the umask.
create_dir_all(dir, umask) == IF dir.exists THEN dir ELSE Dir(TRUE, AndNot(Mode0777, umask))

\* The caller may create an entry in the directory: the owner's write bit for
\* its own directory, the others' write bit for a directory of another user.
MayCreateIn(dir) ==
    IF dir.mine THEN (dir.mode \div 128) % 2 = 1 ELSE (dir.mode \div 2) % 2 = 1

\* The most connections and portal calls served in a run of the model.
MaxServed == 2

InitStartup ==
    /\ Quiet
    /\ \E dir \in BaseDirs, umask \in Umasks :
          call = [fn |-> "Daemon::run", arg |-> [dir |-> dir, umask |-> umask], done |-> FALSE,
                  ret |-> [pc |-> "socket", dir |-> dir, socket |-> FALSE, fifo |-> FALSE,
                           published |-> FALSE, connections |-> 0, requests |-> 0]]

\* Daemon::run, lines 29-38: DaemonSocket::new creates the base directory if
\* it is missing and binds daemon.sock in it; a failure is logged and the
\* startup goes on.
DaemonSocket_new ==
    /\ call.fn = "Daemon::run"
    /\ call.ret.pc = "socket"
    /\ LET base == create_dir_all(call.ret.dir, call.arg.umask)
       IN  call' = [call EXCEPT !.ret.dir = base, !.ret.socket = MayCreateIn(base),
                                !.ret.pc = "fifo"]
    /\ DaemonUnchanged

\* Daemon::run, lines 40-49: DaemonCtl::new makes the FIFO or fails; a
\* failure is logged and the startup goes on.
DaemonCtl_new ==
    /\ call.fn = "Daemon::run"
    /\ call.ret.pc = "fifo"
    /\ \E made \in BOOLEAN : call' = [call EXCEPT !.ret.fifo = made, !.ret.pc = "dbus"]
    /\ DaemonUnchanged

\* Daemon::run, lines 51-65: the portal interfaces are registered and the
\* connection is built; an error of the bus ends run.
Publish ==
    /\ call.fn = "Daemon::run"
    /\ call.ret.pc = "dbus"
    /\ \/ call' = [call EXCEPT !.ret.published = TRUE, !.ret.pc = "serving"]
       \/ call' = [call EXCEPT !.ret.pc = "failed", !.done = TRUE]
    /\ DaemonUnchanged

\* DaemonSocket::run: the socket's thread accepts a connection.
AcceptControl ==
    /\ call.fn = "Daemon::run"
    /\ call.ret.socket
    /\ call.ret.pc # "failed"
    /\ call.ret.connections < MaxServed
    /\ call' = [call EXCEPT !.ret.connections = @ + 1]
    /\ DaemonUnchanged

\* A portal method is called on the published interfaces.
ServePortal ==
    /\ call.fn = "Daemon::run"
    /\ call.ret.published
    /\ call.ret.requests < MaxServed
    /\ call' = [call EXCEPT !.ret.requests = @ + 1]
    /\ DaemonUnchanged

NextStartup ==
    \/ DaemonSocket_new
    \/ DaemonCtl_new
    \/ Publish
    \/ AcceptControl
    \/ ServePortal

SpecStartup == InitStartup /\ [][NextStartup]_vars

\* ------------------------------- a rewrite of a line-file beside a reader
\* fs::write opens the file with truncation and then writes the content with
\* write_all, a loop of write calls each of which may take a part of what is
\* left.  A reader of the same path runs between any two of these steps.
RewriteLines == {<<"a">>, <<"b", "c">>}
RewriteLists == ListsOf(RewriteLines)

NoRead == [read |-> FALSE, lines |-> <<>>]
ReadOf(ls) == [read |-> TRUE, lines |-> ls]

\* The lines remove_lines keeps.
Remaining(existing, to_remove) == SelectSeq(existing, LAMBDA e : ~Contains(to_remove, e))

InitRewrite ==
    /\ Quiet
    /\ \E old \in RewriteLists, ls \in RewriteLists, fn \in {"write_lines", "remove_lines"} :
          call = [fn |-> fn, arg |-> [old |-> old, lines |-> ls], done |-> FALSE,
                  ret |-> [pc |-> IF fn = "remove_lines" THEN "existing" ELSE "open",
                           file |-> write_lines(<<>>, old), lines |-> ls, rest |-> <<>>,
                           seen |-> NoRead]]

\* remove_lines, lines 39-43: the file is read and the lines to keep chosen.
RemoveRead ==
    /\ call.fn = "remove_lines"
    /\ call.ret.pc = "existing"
    /\ call' = [call EXCEPT !.ret.lines = Remaining(read_lines(call.ret.file), call.arg.lines),
                            !.ret.pc = "open"]
    /\ DaemonUnchanged

\* write_lines, lines 17-22: fs::write opens the path, which empties the file.
OpenTruncate ==
    /\ call.fn \in {"write_lines", "remove_lines"}
    /\ call.ret.pc = "open"
    /\ LET content == write_lines(<<>>, call.ret.lines)
       IN  call' = [call EXCEPT !.ret.file = <<>>, !.ret.rest = content,
                                !.ret.pc = IF content = <<>> THEN "done" ELSE "write",
                                !.done = (content = <<>>)]
    /\ DaemonUnchanged

\* write_all: one write call puts a part of what is left into the file.
WriteSome ==
    /\ call.fn \in {"write_lines", "remove_lines"}
    /\ call.ret.pc = "write"
    /\ \E n \in 1..Len(call.ret.rest) :
          LET left == SubSeq(call.ret.rest, n + 1, Len(call.ret.rest))
          IN  call' = [call EXCEPT !.ret.file = @ \o SubSeq(call.ret.rest, 1, n),
                                   !.ret.rest = left,
                                   !.ret.pc = IF left = <<>> THEN "done" ELSE "write",
                                   !.done = (left = <<>>)]
    /\ DaemonUnchanged

\* read_lines of the same path by another process, at any moment.
ConcurrentRead ==
    /\ call.fn \in {"write_lines", "remove_lines"}
    /\ call' = [call EXCEPT !.ret.seen = ReadOf(read_lines(call.ret.file))]
    /\ DaemonUnchanged

NextRewrite ==
    \/ RemoveRead
    \/ OpenTruncate
    \/ WriteSome
    \/ ConcurrentRead

SpecRewrite == InitRewrite /\ [][NextRewrite]_vars

\* ====================================================================== claims
\* The step in which Session::run of request r returns a result (not an error).
RunReturns(r) == srun[r] = "running" /\ srun'[r] = "done" /\ result'[r].kind # "Error"

\* C1: within one session the first of Submit and Cancel that is delivered
\* decides the outcome: when Submit was handled first and the selection is not
\* empty when the run returns, the result is Success, whatever Cancel arrived
\* later; when Cancel was handled first, the result is Cancelled.
C1_FirstWins ==
    [][\A r \in Reqs :
        RunReturns(r) =>
            /\ (first[r] = "Submit" /\ selection[r] # {}) => result'[r].kind = "Success"
            /\ first[r] = "Cancel" => result'[r].kind = "Cancelled"]_vars

\* C2: when the run returns and no Cancel was delivered, the result is Success
\* with exactly the entries of the selection at that moment if there is at least
\* one, and Cancelled if there is none; it is never anything else.
C2_SubmitResult ==
    [][\A r \in Reqs :
        (RunReturns(r) /\ ~cancelled[r]) =>
            IF selection[r] # {}
            THEN /\ result'[r].kind = "Success"
                 /\ Range(result'[r].uris) = selection[r]
                 /\ Len(result'[r].uris) = Cardinality(selection[r])
            ELSE result'[r] = ResultCancelled]_vars

\* C2 witness: a run ended without any Cancel and returned two entries.
C2_Witness ==
    /\ srun["r1"] = "done"
    /\ ~cancelled["r1"]
    /\ result["r1"].kind = "Success"
    /\ Len(result["r1"].uris) = 2

\* C3: when the run returns after a Cancel was delivered, the result is
\* Cancelled, whatever the selection holds and whatever was submitted.
C3_CancelResult ==
    [][\A r \in Reqs :
        (RunReturns(r) /\ cancelled[r]) => result'[r] = ResultCancelled]_vars

\* C3 witness: a run that handled a Submit and then a Cancel returned Cancelled.
C3_Witness ==
    /\ srun["r1"] = "done"
    /\ cancelled["r1"]
    /\ submitted["r1"]
    /\ first["r1"] = "Submit"
    /\ result["r1"] = ResultCancelled

\* C4: every record in the registry (of a session made by the generic
\* run_session) has its workspace directory, holding portal, options.json,
\* submission and bin/ with the default shims.
C4_RegisteredHasWorkspace ==
    \A rec \in registry :
        handler[rec.owner] = Generic =>
            \E w \in workspace :
                /\ w.id = rec.id
                /\ w.owner = rec.owner
                /\ ({"portal", "options.json", "submission", "bin"}
                        \cup default_commands(rec.portal)) \subseteq w.files

C6_CloseEndsSession ==
    closed["r1"] ~>
        (/\ srun["r1"] = "done"
         /\ ~\E rec \in registry : rec.owner = "r1"
         /\ ~\E w \in workspace : w.owner = "r1")

C8_DistinctIds ==
    \A r \in Reqs : \A q \in Reqs :
        (r # q /\ sid[r] # 0 /\ sid[q] # 0) => sid[r] # sid[q]

\* C9: a request that finds a matching queued submission is answered from it:
\* Cancelled when it holds no entries, else the entries as the validator
\* transforms them, or a failure when the validator rejects them; the
\* submission leaves the queue; no session is created or registered, pending
\* is not drained, and nothing is spawned.
C9_QueuedShortCircuit ==
    [][\A r \in Reqs :
        LET p == pop_for_portal(submissions, PortalOf(r))
            entries == ApplyAllQueued(<<>>, p.submission.commands)
            v == validate(PortalOf(r), OperationOf(r), entries, OptionsOf(r))
        IN  (pc[r] = "start" /\ pc'[r] # "start" /\ p.found) =>
                /\ pc'[r] = "done"
                /\ reply'[r] = IF entries = <<>> THEN ReplyCancelled
                               ELSE IF v.ok THEN ReplySuccess(v.entries)
                               ELSE ReplyFailed
                /\ submissions' = p.rest
                /\ UNCHANGED <<registry, workspace, pending, sid, child, srun>>]_vars

\* C10: a pop for portal P consumes the earliest-created queued submission
\* whose target is P or any, whichever is more specific; the others stay in
\* their order; when none matches nothing is consumed.
C10_PopEarliestMatch ==
    [][\A portal \in PortalTypes :
        (popped'.asked = portal /\ <<popped, submissions>>' # <<popped, submissions>>) =>
            LET M == {i \in 1..Len(submissions) : submissions[i].portal \in {portal, NoPortal}}
            IN  IF M = {}
                THEN ~popped'.found /\ submissions' = submissions
                ELSE LET m == CHOOSE i \in M : \A j \in M : i <= j
                     IN  /\ popped'.found
                         /\ popped'.submission = submissions[m]
                         /\ \A j \in M : submissions[m].created <= submissions[j].created
                         /\ submissions' = [i \in 1..(Len(submissions) - 1) |->
                                               IF i < m THEN submissions[i] ELSE submissions[i + 1]]]_vars

\* C10 witness: a submission queued for any portal was consumed while one
\* queued later for the asked portal itself stays in the queue.
C10_Witness ==
    /\ popped.found
    /\ popped.submission.portal = NoPortal
    /\ \E i \in 1..Len(submissions) :
          /\ submissions[i].portal = popped.asked
          /\ submissions[i].created > popped.submission.created

\* The last queued submission is made of `pend`, for `portal`, created at the
\* clock's new reading.
BundledLast(subs, pend, portal, ts) ==
    /\ subs # <<>>
    /\ subs[Len(subs)] = [commands |-> pend, portal |-> portal, created |-> ts]

\* C11: a QueueSubmit handled while no session is registered and pending is
\* not empty adds exactly one queued submission, holding all pending commands
\* in their order, empties pending and answers Ok; with pending empty it
\* answers an error and the queued submissions stay as they are.
C11_SubmitBundlesPending ==
    [][\A portal \in PortalTypes \cup {NoPortal} :
          (QueueSubmit(portal) /\ registry = {}) =>
              IF pending # <<>>
              THEN /\ Len(submissions') = Len(submissions) + 1
                   /\ SubSeq(submissions', 1, Len(submissions)) = submissions
                   /\ BundledLast(submissions', pending, portal, now')
                   /\ pending' = <<>>
                   /\ resp' = ResponseOk
              ELSE /\ resp'.kind = "Error"
                   /\ submissions' = submissions
                   /\ pending' = pending]_vars

\* C11 witness: two pushed commands were bundled, in their order, into the one
\* queued submission, and the control socket answered Ok.
C11_Witness ==
    /\ registry = {}
    /\ pending = <<>>
    /\ Len(submissions) = 1
    /\ submissions[1].commands = <<Clear, Select(<<EntryRel>>)>>
    /\ resp = ResponseOk

\* C13: a cancel received on the control socket while no session is registered
\* (QueueClearPending, or Cancel through handle_request) empties pending and
\* answers Ok, and leaves the queued submissions and the registry as they are.
C13_CancelClearsPending ==
    [][((QueueClearPending \/ route_session_command(CancelMsg)) /\ registry = {}) =>
          /\ pending' = <<>>
          /\ resp' = ResponseOk
          /\ UNCHANGED <<submissions, registry>>]_vars

\* The step in which session r handles a request that apply_to_session sent.
HandlesApplied(r) ==
    /\ RunAccept(r)
    /\ Head(inbox[r]).from = "daemon"
    /\ wk.via = "apply"

OnlyResponds ==
    UNCHANGED <<now, handler, exec, registry, workspace, pending, submissions, pc, sid,
                selection, order, child, srun, cancelled, submitted, inbox, result, reply, first,
                closed, wk, popped, store, call>>

C15_RoutedToEarliest ==
    [][\A req \in EndMsgs :
          (route_session_command(req) /\ registry # {}) =>
              /\ wk'.st = "send"
              /\ \E s \in EarliestCreated(registry) : wk'.id = s.id]_vars

\* What the validator lets through for request r: at least one entry; for the
\* file chooser file:// URIs, one only unless multiple; for a screenshot one.
ValidatedShape(r, uris) ==
    /\ uris # <<>>
    /\ PortalOf(r) = FileChooser =>
           /\ \A i \in 1..Len(uris) : StartsWith(uris[i], FilePrefix)
           /\ OptionsOf(r).multiple \/ Len(uris) = 1
    /\ PortalOf(r) = Screenshot => Len(uris) = 1

NonEmpty(ls) == SelectSeq(ls, LAMBDA l : l # <<>>)

\* What an operation leaves to be read, told in entries: an add appends the
\* resolved entries for a multiple pick and replaces with them otherwise, a
\* remove drops the named entries, clear leaves nothing, reset the initial
\* entries.
EntriesAfter(ctx, before, op, xs) ==
    IF op = "add"
    THEN LET new == NonEmpty(IF ctx.portal = FileChooser THEN resolve_entries_to_absolute(xs) ELSE xs)
         IN  IF ctx.portal = FileChooser /\ ctx.mode = Pick(TRUE, ctx.mode.directory)
             THEN before \o new ELSE new
    ELSE IF op = "remove" THEN SelectSeq(before, LAMBDA e : \A i \in 1..Len(xs) : xs[i] # e)
    ELSE IF op = "clear" THEN <<>>
    ELSE ctx.initial

\* C17: after every add, remove, clear and reset on a session's submission
\* file, reading the file yields exactly the non-empty lines the operation
\* wrote, in order: no line is lost, merged with another or split.
C17_ReadYieldsLastWrite ==
    [][store' # store =>
          read_lines(store'.file) = EntriesAfter(store.ctx, read_lines(store.file), store'.op, store'.xs)]_vars

\* C17 witness: an empty entry and a path were written to a screenshot
\* session's file; the file holds an empty line and the path.
C17_Witness ==
    /\ store.ctx.portal = Screenshot
    /\ store.op = "add"
    /\ store.xs = <<<<>>, EntryAbs>>
    /\ store.file = <<Newline>> \o EntryAbs \o <<Newline>>

\* C18: removing xs right after adding xs leaves the submission as it was
\* before the add: the same entries in the same order.
C18_EditRemoveIdentity ==
    [][(store.op = "add" /\ store'.op = "remove" /\ store'.xs = store.xs) =>
          read_lines(store'.file) = store.prior]_vars

\* C19: a reset leaves exactly the session's initial entries in the
\* submission, whatever was done to it before, and a reset after a reset
\* leaves the file as it is.
C19_ResetToInitial ==
    [][store'.op = "reset" =>
          /\ read_lines(store'.file) = store.ctx.initial
          /\ store.op = "reset" => store'.file = store.file]_vars

\* C19 witness: a reset brought back two initial entries after the file had
\* been cleared.
C19_Witness ==
    /\ store.op = "reset"
    /\ store.prior = <<>>
    /\ Len(store.ctx.initial) = 2
    /\ read_lines(store.file) = store.ctx.initial

\* C20: add_entries appends, and reports Appended with the number of entries,
\* only in a file-chooser session whose mode is Pick with multiple = true; in
\* single pick, save, save-multiple and in every screenshot session it
\* replaces the whole submission with the new entries and reports Replaced.
C20_AppendOnlyMultiPick ==
    [][store'.op = "add" =>
          LET multi == /\ store.ctx.portal = FileChooser
                       /\ store.ctx.mode.kind = "Pick"
                       /\ store.ctx.mode.multiple
              new == IF store.ctx.portal = FileChooser
                     THEN resolve_entries_to_absolute(store'.xs) ELSE store'.xs
          IN  IF multi
              THEN /\ store'.added = Appended(Len(store'.xs))
                   /\ StartsWith(store'.file, store.file)
                   /\ lines(store'.file) = lines(store.file) \o new
              ELSE /\ store'.added = Replaced
                   /\ lines(store'.file) = new]_vars

\* C20 witness: in a single-pick session that held an entry, an add of
\* another entry replaced it.
C20_Witness ==
    /\ store.ctx.portal = FileChooser
    /\ store.ctx.mode = Pick(FALSE, TRUE)
    /\ store.op = "add"
    /\ store.added = Replaced
    /\ store.prior = <<EntryAbs>>
    /\ read_lines(store.file) = <<current_dir \o <<"/">> \o EntryRel>>


\* The validator has been applied to a submission of the portal.
Validated(portal) == call.fn = "validate" /\ call.done /\ call.arg.portal = portal

\* C21: the validator of each portal rejects a submission without entries,
\* whatever the operation and the options.
C21_EmptyRejected ==
    \A portal \in PortalTypes :
        (Validated(portal) /\ call.arg.entries = <<>>) => call.ret = Invalid

C21_Witness ==
    /\ Validated(FileChooser)
    /\ call.arg.operation = "save-files"
    /\ call.arg.entries = <<>>
    /\ call.ret = Invalid

\* The operation takes one entry only: open-file in single pick mode, save-file,
\* and every screenshot operation.
SingleEntryCall ==
    \/ /\ call.arg.portal = FileChooser
       /\ call.arg.operation = "open-file"
       /\ call.arg.options.pick
       /\ ~call.arg.options.multiple
    \/ call.arg.portal = FileChooser /\ call.arg.operation = "save-file"
    \/ call.arg.portal = Screenshot

MultiPickCall ==
    /\ call.arg.portal = FileChooser
    /\ call.arg.operation = "open-file"
    /\ call.arg.options.pick
    /\ call.arg.options.multiple

\* C22: a submission whose number of entries is not exactly one is rejected for
\* open-file in single pick mode, for save-file and for every screenshot
\* operation; open-file in multiple pick mode accepts any number of entries
\* other than zero.
C22_EntryCount ==
    (call.fn = "validate" /\ call.done) =>
        /\ (SingleEntryCall /\ Len(call.arg.entries) # 1) => ~call.ret.ok
        /\ (MultiPickCall /\ Len(call.arg.entries) >= 1) => call.ret.ok

C22_Witness ==
    /\ Validated(FileChooser)
    /\ call.arg.operation = "save-file"
    /\ Len(call.arg.entries) = 2
    /\ ~call.ret.ok

\* An absolute file:// URI: the scheme, then a path that starts at the root.
IsAbsoluteFileUri(uri) == StartsWith(uri, FilePrefix) /\ is_absolute(StripPrefix(uri, FilePrefix))

\* C23: every entry that an accepting file chooser validation returns is an
\* absolute file:// URI, whatever the operation, the mix of relative, absolute
\* and file:// entries, and whether current_folder is set or not.
C23_AbsoluteFileUris ==
    (Validated(FileChooser) /\ call.ret.ok) =>
        \A i \in 1..Len(call.ret.entries) : IsAbsoluteFileUri(call.ret.entries[i])

\* The lower-case letter of an upper-case hex letter, any other character as
\* it is.
LowerChar(c) ==
    IF c \in Range(UpperHex) THEN LowerHex[CHOOSE i \in 1..6 : UpperHex[i] = c] ELSE c
LowerCase(text) == [i \in 1..Len(text) |-> LowerChar(text[i])]

\* C24: for pick-color the validator returns the canonical color string of the
\* entry without its file:// prefix, so that an entry in the #rrggbb form comes
\* back in lower case whatever the case it was written in, and rejects an entry
\* that does not parse as a color.
C24_CanonicalColor ==
    (Validated(Screenshot) /\ call.arg.operation = "pick-color" /\ Len(call.arg.entries) = 1) =>
        LET color_str == StripPrefix(call.arg.entries[1], FilePrefix)
        IN  /\ ~parse_color(color_str).some => ~call.ret.ok
            /\ (parse_color(color_str).some /\ Head(color_str) = "#") =>
                   call.ret = Valid(<<LowerCase(color_str)>>)


\* The options of the request's session when it is a multi-select one.
MultiSelect(r) == [OptionsOf(r) EXCEPT !.multiple = TRUE]

\* C25: in a multi-select file chooser session the portal result lists the
\* entries in the order in which they were added: what the validator makes of
\* the result the run returns is the list of the URIs of the entries in
\* insertion order.
C25_InsertionOrder ==
    [][\A r \in Reqs :
        (RunReturns(r) /\ PortalOf(r) = FileChooser /\ result'[r].kind = "Success") =>
            validate(PortalOf(r), OperationOf(r), result'[r].uris, MultiSelect(r))
                = Valid(MapUris(order[r], MultiSelect(r)))]_vars

\* C26: once the session has handled a Submit, no request handled afterwards
\* changes the entries the result will carry (and with them whether the result
\* is Success or Cancelled): while the run goes on, the selection stays as it
\* was when Submit was handled.
C26_SubmitFreezesSelection ==
    [][\A r \in Reqs :
        (submitted[r] /\ srun[r] = "running" /\ srun'[r] = "running") =>
            selection'[r] = selection[r]]_vars

\* The number of line feeds of a text.
LineFeeds(text) == Cardinality({i \in 1..Len(text) : text[i] = "\n"})

\* One line, ended by the only line feed of the text.
IsOneLine(text) == text # <<>> /\ text[Len(text)] = "\n" /\ LineFeeds(text) = 1

\* C27: for every request (submit, cancel, verify, reset, each with or without
\* a session id, and list) encode produces a single newline-terminated line and
\* decoding that line gives the request back; a line whose verb is none of the
\* five is rejected.
C27_RequestRoundTrip ==
    /\ (call.fn = "request" /\ call.ret.stage # "new") => IsOneLine(call.ret.wire)
    /\ (call.fn = "request" /\ call.done) => call.ret.decoded = Decoded(call.arg)
    /\ (call.fn = "line" /\ call.done) => ~call.ret.decoded.ok

\* A text with every tab, carriage return and line feed replaced by a space.
WithSpaces(text) ==
    [i \in 1..Len(text) |-> IF text[i] = "\t" \/ text[i] = "\r" \/ text[i] = "\n" THEN " " ELSE text[i]]

\* The six fields a session is to be listed with.
FieldsOf(info) ==
    <<WithSpaces(info.id), WithSpaces(info.portal), WithSpaces(info.operation),
      ToDecimal(info.created), WithSpaces(info.dir),
      IF info.title.some THEN WithSpaces(info.title.value) ELSE <<>>>>

\* The lines of an encoded response: the pieces between the line feeds (the
\* piece after the last line feed is empty when the text ends with one).
WireLines(text) == SplitOn(text, "\n")

\* C28: the encoding of a session list whose id, portal, operation, dir and
\* title may contain tabs, carriage returns and line feeds is one line per
\* session, each of exactly six tab-separated fields equal to the originals
\* with those characters replaced by spaces, followed by exactly one terminator
\* line ok; the encoding of an error response is exactly one line.
C28_InjectionFree ==
    (call.fn = "response" /\ call.ret.stage # "new") =>
        LET ls == WireLines(call.ret.wire)
            n == Len(call.arg.sessions)
        IN  /\ call.arg.kind = "Sessions" =>
                /\ Len(ls) = n + 2
                /\ ls[n + 2] = <<>>
                /\ ls[n + 1] = OkLine
                /\ \A i \in 1..n : SplitOn(ls[i], "\t") = FieldsOf(call.arg.sessions[i])
            /\ call.arg.kind = "Error" =>
                /\ IsOneLine(call.ret.wire)
                /\ call.ret.wire = ErrorPrefix \o WithSpaces(call.arg.msg) \o <<"\n">>

C28_Witness ==
    /\ call.fn = "response"
    /\ call.ret.stage = "written"
    /\ call.arg.kind = "Sessions"
    /\ Len(call.arg.sessions) = 2
    /\ call.arg.sessions[1].title = Some(<<"a", "\n", "b">>)
    /\ call.arg.sessions[2].id = <<"a", "\t", "b">>

\* C29: a list served while no session is registered is answered with the line
\* ok alone, and the client's list returns an empty list for it, not an error.
C29_EmptyList ==
    (call.fn = "response" /\ call.arg = Response_Sessions(<<>>)) =>
        /\ call.ret.stage # "new" => call.ret.wire = OkLine \o <<"\n">>
        /\ call.done => call.ret.list = ListOk(<<>>)

C29_Witness ==
    /\ call.fn = "response"
    /\ call.arg = Response_Sessions(<<>>)
    /\ call.done
    /\ call.ret.read = Received(Response_Ok)
    /\ call.ret.list = ListOk(<<>>)

\* The exec configured at the three levels for the operation asked for.
LevelsOf(arg) ==
    LET section == IF arg.portal = FileChooser THEN arg.config.file_chooser ELSE arg.config.screenshot
    IN  <<OpExec(section, arg.operation), PortalExec(section), arg.config.exec>>

\* An exec that is empty or missing.
Unset(o) == ~o.some \/ o.value = <<>>

\* C30: the effective exec of an operation is the operation-level exec if set,
\* otherwise the portal-level exec, otherwise the root-level exec; the session
\* is headless if and only if exec is empty or missing at all three levels.
C30_ExecResolution ==
    (call.fn = "exec" /\ call.done) =>
        LET levels == LevelsOf(call.arg)
        IN  /\ call.ret.headless <=> \A i \in 1..3 : Unset(levels[i])
            /\ ~call.ret.headless =>
                   call.ret.exec = levels[CHOOSE i \in 1..3 :
                                             ~Unset(levels[i]) /\ \A j \in 1..(i - 1) : Unset(levels[j])]

\* The folder a save-files submission names: what its first entry resolves to,
\* or the parent of that when it is a file.
FolderOf(entries, options) ==
    LET first_path == resolve_path(entries[1], options)
    IN  IF first_path \in options.is_file THEN ParentOrSelf(first_path) ELSE first_path

\* C38: for save-files with candidates, validate returns exactly one URI per
\* candidate, in candidate order, each the candidate joined to the folder the
\* first entry gives (its parent when it resolves to a file); without
\* candidates it returns one URI per entry, in entry order.
C38_SaveFilesCandidates ==
    (Validated(FileChooser) /\ call.arg.operation = "save-files" /\ call.arg.entries # <<>>) =>
        LET options == call.arg.options
            entries == call.arg.entries
        IN  IF options.candidates # <<>>
            THEN call.ret = Valid([i \in 1..Len(options.candidates) |->
                               FilePrefix \o PathJoin(FolderOf(entries, options), options.candidates[i])])
            ELSE call.ret = Valid([i \in 1..Len(entries) |-> resolve_to_uri(entries[i], options)])

C38_Witness ==
    /\ Validated(FileChooser)
    /\ call.arg.operation = "save-files"
    /\ call.arg.entries = <<EntryAbs>>
    /\ call.arg.options.candidates = <<CandidateName, OtherCandidate>>
    /\ EntryAbs \in call.arg.options.is_file
    /\ call.ret = Valid(<<FilePrefix \o <<"/", "c">>, FilePrefix \o <<"/", "d">>>>)

\* C39: the validator never drops an entry silently: whenever it accepts a
\* list, every entry of the list is used for the result, so that the list
\* without that entry would not be given the same answer.
C39_NoEntryDropped ==
    (call.fn = "validate" /\ call.done /\ call.ret.ok) =>
        \A i \in 1..Len(call.arg.entries) :
            validate(call.arg.portal, call.arg.operation, RemoveAt(call.arg.entries, i),
                     call.arg.options) # call.ret

\* No tab, carriage return or line feed in the text.
IsPlain(text) == \A i \in 1..Len(text) : text[i] \notin {"\t", "\r", "\n"}

\* No string of the response holds a tab, a carriage return or a line feed.
IsPlainResponse(response) ==
    /\ IsPlain(response.msg)
    /\ \A i \in 1..Len(response.sessions) :
          LET info == response.sessions[i]
          IN  /\ IsPlain(info.id) /\ IsPlain(info.portal) /\ IsPlain(info.operation)
              /\ IsPlain(info.dir) /\ IsPlain(info.title.value)

\* The response has been read off the stream.
ResponseRead == call.ret.stage \in {"read", "listed"}

IsCarried(info) == info.title # Some(<<>>) /\ ~StartsWith(info.id, ErrorPrefix)

BaseDirIsPrivate(dir) == dir.exists /\ dir.mine /\ dir.mode = Mode0700

\* C31: at startup no control socket or FIFO is bound unless the base
\* directory is owned by the calling user with mode exactly 0700, and when
\* that is not so the daemon does not go on to publish the portal interfaces
\* or serve requests.
C31_OwnershipBeforeBind ==
    call.fn = "Daemon::run" =>
        /\ (call.ret.socket \/ call.ret.fifo) => BaseDirIsPrivate(call.ret.dir)
        /\ (call.ret.published \/ call.ret.connections > 0 \/ call.ret.requests > 0) =>
               BaseDirIsPrivate(call.ret.dir)

\* The list a rewrite leaves in the file.
NewList ==
    IF call.fn = "remove_lines" THEN Remaining(call.arg.old, call.arg.lines) ELSE call.arg.lines

\* C34: a read_lines that runs beside a write_lines or a remove_lines of the
\* same file returns the complete old list or the complete new list, never
\* an empty or a partial one.
C34_AtomicRewrite ==
    (call.fn \in {"write_lines", "remove_lines"} /\ call.ret.seen.read) =>
        call.ret.seen.lines \in {call.arg.old, NewList}

\* C35: whenever run returns, with a result or with an error, the child of
\* the session (if one was spawned) has been killed and reaped: none is left
\* running or unreaped.
C35_RunReapsChild ==
    [][\A r \in Reqs :
        (srun[r] = "running" /\ srun'[r] = "done") => child'[r] = "none"]_vars

\* C36: when a session with a spawned child is dropped and run has never been
\* called on it, the drop kills and reaps the child.
C36_DropReapsChild ==
    [][\A r \in Reqs :
        (srun[r] \in {"ready", "queued"} /\ srun'[r] = "done") => child'[r] = "none"]_vars

\* Request r is answered from a queued submission in this step.
AnsweredFromQueue(r) == pc[r] = "start" /\ pc'[r] = "done"

Undelivered == SubSeq(wk.cmds, wk.i, Len(wk.cmds))

\* The step in which a QueueSubmit whose delivery failed queues what it took.
Requeues == wk.st = "err" /\ wk.via = "apply" /\ wk'.st = "idle"

\* C32: no pending command is lost or duplicated by draining.  A drain into
\* a fresh session applies all of pending to that session and empties it; a
\* submit with no session bundles all of pending into one queued submission;
\* and a submit whose delivery to a session failed puts back exactly what the
\* session did not receive, beside what was appended to pending meanwhile.
C32_NothingLostOrDuplicated ==
    [][/\ \A r \in Reqs :
            (pc[r] = "drain" /\ pc'[r] = "spawn") =>
                /\ order'[r] = ApplyAllQueued(order[r], pending)
                /\ pending' = <<>>
       /\ (wk.st = "idle" /\ wk'.st = "idle" /\ Len(submissions') = Len(submissions) + 1) =>
                /\ submissions'[Len(submissions')].commands = pending
                /\ pending' = <<>>
       /\ Requeues =>
                /\ Len(submissions') = Len(submissions) + 1 \/ Undelivered \o pending = <<>>
                /\ Len(submissions') = Len(submissions) + 1 =>
                      pending' \o submissions'[Len(submissions')].commands
                          \in {pending \o Undelivered, Undelivered \o pending}]_vars

\* The control socket's worker is talking to a session: its request is on the
\* way or the session has not answered yet.
WorkerStalled == wk.st \in {"send", "wait"}

====
